---- MODULE Spec2Model ----
(***************************************************************************)
(* A model of the NaCl demo plugin (apps/nacl_demos/nacl_demos.cpp) and of *)
(* the image-parameter front end (src/Param.h).                            *)
(*                                                                         *)
(* Spec        the plugin: instances, HandleMessage, completion_callback   *)
(* SpecLive    Spec with the browser running each completion callback      *)
(* SpecPage    the plugin on a page with several instances                 *)
(* SpecBuffer  alloc_buffer / free_buffer applied to drawn descriptors     *)
(* SpecCall    ImageParam::operator() applied to drawn coordinate lists    *)
(* SpecImage   OutputImageParam: constraints, accessors, bound buffer      *)
(* SpecParam   Param<T>: set_min_value, set_max_value, set_range           *)
(* SpecDebug   debug and error_report statements (src/Debug.h)             *)
(* SpecRunner  the test runner of the OS X app (AppDelegate.m)             *)
(***************************************************************************)
EXTENDS Integers, Sequences, FiniteSets, TLC

VARIABLES
    alive,              \* per instance: "unborn", "alive", "destroyed"
    state_1,            \* per instance: halide_nd_buffer_t<3> state_1
    state_2,            \* per instance: halide_nd_buffer_t<3> state_2
    busy,               \* global bool busy
    pipeline_barfed,    \* global bool pipeline_barfed
    inst,               \* global static Instance *inst
    last_demo,          \* function-static int last_demo
    thread_pool_size,   \* function-static int thread_pool_size
    first_run,          \* function-static bool first_run
    flush_pending,      \* graphics.Flush(callback) issued, callback not yet run
    heap,               \* the halide_malloc / halide_free heap
    crashed,            \* the process died (use of a destroyed instance)
    log,                \* what the most recent entry point did, in order
    ip_dims,            \* ImageParam: dims
    ip_args,            \* ImageParam: the coordinates handed to operator()
    ip_out,             \* ImageParam: the outcome of operator()
    ip_conv,            \* ImageParam: the outcome of operator Expr()
    oip,                \* OutputImageParam: name, dims and its Parameter
    oip_ret,            \* OutputImageParam: the last call and what it returned
    sp,                 \* Param<T>: its type and its Parameter
    sp_ret,             \* Param<T>: the last call made on it
    dbg,                \* Debug.h: environment, debug's statics, std::cerr
    runner              \* AppDelegate: the symbol list and what the runner did

sysvars == <<alive, state_1, state_2, busy, pipeline_barfed, inst, last_demo,
             thread_pool_size, first_run, flush_pending, heap, crashed, log>>
ipvars == <<ip_dims, ip_args, ip_out, ip_conv, oip, oip_ret, sp, sp_ret,
            dbg, runner>>
toolvars == <<dbg, runner>>
callvars == <<ip_dims, ip_args, ip_out, ip_conv>>
imagevars == <<oip, oip_ret>>
paramvars == <<sp, sp_ret>>
vars == <<alive, state_1, state_2, busy, pipeline_barfed, inst, last_demo,
          thread_pool_size, first_run, flush_pending, heap, crashed, log,
          ip_dims, ip_args, ip_out, ip_conv, oip, oip_ret, sp, sp_ret,
          dbg, runner>>

(***************************************************************************)
(* Bounds of the model.                                                    *)
(***************************************************************************)
NumInstances == 2
HeapSlots == 4
MaxExtent == 2
MaxDims == 4
MaxImageDims == 3
MaxSetCalls == 2
WordBits == 3
MaxOperands == 2
MaxVerbosity == 2
MaxSymbolsLen == 3
MaxLoads == 2
PageDemos == 2

Instances == 1..NumInstances
\* the instances of a page with a single <embed> of the module
OneEmbed == {1}
Pointers == 1..HeapSlots

(***************************************************************************)
(* Program constants.                                                      *)
(***************************************************************************)
NULL == 0
NoDemo == -1
DefaultThreads == 8
MinThreads == 1
MaxThreads == 32
NumDemos == 4
StateDims == 3
MaxCallArgs == 4
\* a name with no numeric suffix
NoSuffix == 0 - 1
QuerySite == 249
RenderSite == 294

(***************************************************************************)
(* Buffer descriptors.                                                     *)
(***************************************************************************)
Dim(mn, ex, st) == [min |-> mn, extent |-> ex, stride |-> st]

\* a descriptor as constructed: no host memory, no shape
InitBuffer ==
    [host |-> NULL, dimensions |-> 0, bytes |-> 0,
     dim |-> [d \in 1..StateDims |-> Dim(0, 0, 0)]]

\* the shape the bounds query of a demo's render pipeline reports for its
\* state buffer: two-dimensional for the even demos, three-dimensional with
\* an empty dimension for the odd ones
QueryShape(demo) ==
    IF demo % 2 = 0
    THEN [dimensions |-> 2, bytes |-> 4,
          dim |-> <<Dim(0 - 1, MaxExtent, 1),
                    Dim(0 - 1, MaxExtent + 1, MaxExtent),
                    Dim(0, 0, 0)>>]
    ELSE [dimensions |-> 3, bytes |-> 1,
          dim |-> <<Dim(0, MaxExtent, 1), Dim(0, 0, MaxExtent),
                    Dim(0, 1 + demo, MaxExtent)>>]

\* the descriptors alloc_buffer and free_buffer are exercised on
BufferInputs ==
    { [host |-> NULL, dimensions |-> n, bytes |-> by,
       dim |-> [d \in 1..StateDims |-> Dim(0 - 1, ex[d], d)]] :
         n \in 0..StateDims, by \in {1, 4},
         ex \in [1..StateDims -> 0..MaxExtent] }

(***************************************************************************)
(* The heap behind halide_malloc / halide_free.  An address is live from   *)
(* the halide_malloc that returned it to its release.                      *)
(***************************************************************************)
EmptyHeap ==
    [live |-> {}, size |-> [p \in Pointers |-> 0],
     double_free |-> FALSE, foreign_free |-> FALSE]

Ev(op, a, b) == [op |-> op, a |-> a, b |-> b]

\* halide_malloc(NULL, sz): a fresh address, or NULL when the allocator fails
halide_malloc(h, sz, ok) ==
    LET free == Pointers \ h.live IN
    IF ok /\ free # {}
    THEN LET p == CHOOSE q \in free : \A r \in free : q <= r IN
         [ptr |-> p,
          heap |-> [h EXCEPT !.live = @ \cup {p}, !.size[p] = sz]]
    ELSE [ptr |-> NULL, heap |-> h]

\* halide_free(NULL, p)
halide_free(h, p) ==
    IF p \in h.live
    THEN [h EXCEPT !.live = @ \ {p}, !.size[p] = 0]
    ELSE [h EXCEPT !.double_free = TRUE]

\* free(p) of the C library, handed a pointer (NULL is a no-op)
libc_free(h, p) ==
    IF p = NULL THEN h
    ELSE IF p \in h.live
    THEN [h EXCEPT !.live = @ \ {p}, !.size[p] = 0, !.foreign_free = TRUE]
    ELSE [h EXCEPT !.double_free = TRUE]

(***************************************************************************)
(* alloc_buffer and free_buffer, on r = [b, heap, log].                    *)
(***************************************************************************)
RECURSIVE AllocLoop(_, _, _)
\* for (int i = 0; i < b->dimensions; i++) if (extent) sz *= extent;
\* (sz is a size_t; the sizes of the descriptors drawn here stay far below
\* its range, so the product is the mathematical one)
AllocLoop(b, i, sz) ==
    IF i >= b.dimensions THEN sz
    ELSE AllocLoop(b, i + 1,
                   IF b.dim[i + 1].extent # 0
                   THEN sz * b.dim[i + 1].extent
                   ELSE sz)

RECURSIVE AllocLoop_ZeroCounts(_, _, _)
\* AllocLoop without "if (b->dim[i].extent)"
AllocLoop_ZeroCounts(b, i, sz) ==
    IF i >= b.dimensions THEN sz
    ELSE AllocLoop_ZeroCounts(b, i + 1, sz * b.dim[i + 1].extent)

AllocSize_ZeroCounts(b) == AllocLoop_ZeroCounts(b, 0, b.bytes)

\* size_t sz = b->type.bytes(); then the loop
AllocSize(b) == AllocLoop(b, 0, b.bytes)

alloc_buffer(r, ok) ==
    LET sz == AllocSize(r.b)
        got == halide_malloc(r.heap, sz, ok)
    IN  [b |-> [r.b EXCEPT !.host = got.ptr],
         heap |-> got.heap,
         log |-> Append(r.log, Ev("halide_malloc", sz, got.ptr))]

\* free_buffer without "b->host = NULL"
free_buffer_KeepHost(r) ==
    IF r.b.host # NULL
    THEN [b |-> r.b,
          heap |-> halide_free(r.heap, r.b.host),
          log |-> Append(r.log, Ev("halide_free", r.b.host, 0))]
    ELSE r

free_buffer(r) ==
    IF r.b.host # NULL
    THEN [b |-> [r.b EXCEPT !.host = NULL],
          heap |-> halide_free(r.heap, r.b.host),
          log |-> Append(r.log, Ev("halide_free", r.b.host, 0))]
    ELSE r

(***************************************************************************)
(* HandleMessage.  m is the handler's view of the program while it runs:   *)
(* i the instance, in the message and the outcomes of the collaborators    *)
(* (the pipelines, the allocator), s1/s2 the instance's state_1/state_2,   *)
(* done set by a return statement.                                         *)
(***************************************************************************)
CallSites == {"query", "init", "update", "render"}

Messages ==
    {[is_string |-> FALSE, demo |-> 0, threads |-> 0]} \cup
    {[is_string |-> TRUE, demo |-> d, threads |-> t] :
        d \in 0..NumDemos, t \in {0, DefaultThreads, MaxThreads + DefaultThreads}}

Post(m, e) == [m EXCEPT !.log = Append(@, e)]

\* int demo = 0; if (var_message.is_string()) demo = msg[0] - '0';
Demo(m) == IF m.in.is_string THEN m.in.demo ELSE 0

Return(m) == [m EXCEPT !.done = TRUE]

\* extern "C" void halide_error(void *, const char *msg)
halide_error(m) ==
    IF inst = NULL THEN m
    ELSE IF alive[inst] = "destroyed" /\ m.in.ub_crash
    THEN [m EXCEPT !.crashed = TRUE, !.done = TRUE]
    ELSE [Post(m, Ev("PostMessage_error", 0, 0)) EXCEPT !.barfed = TRUE]

\* a call of the compiled pipeline entry point fn at a call site of the
\* handler; a and b are the host pointers of the state descriptors it is
\* handed (render: a the state, b the line of the call)
Pipeline(m, site, fn, a, b) ==
    IF m.done THEN m
    ELSE LET m1 == Post(m, Ev(fn, a, b)) IN
         IF site \in m.in.fails THEN halide_error(m1) ELSE m1

\* <demo>_render(&state_1, &render_target) on the released state_1: the
\* pipeline reports the shape it needs in state_1 and leaves host alone
Query(m) ==
    LET m1 == Pipeline(m, "query", "render", m.s1.host, QuerySite) IN
    IF m1.done THEN m1
    ELSE LET sh == QueryShape(Demo(m)) IN
         [m1 EXCEPT !.s1 = [host |-> m.s1.host, dimensions |-> sh.dimensions,
                            bytes |-> sh.bytes, dim |-> sh.dim]]

FreeState1(m) ==
    LET r == free_buffer([b |-> m.s1, heap |-> m.heap, log |-> m.log]) IN
    [m EXCEPT !.s1 = r.b, !.heap = r.heap, !.log = r.log]

FreeState2(m) ==
    LET r == free_buffer([b |-> m.s2, heap |-> m.heap, log |-> m.log]) IN
    [m EXCEPT !.s2 = r.b, !.heap = r.heap, !.log = r.log]

AllocState1(m) ==
    IF m.done THEN m
    ELSE LET r == alloc_buffer([b |-> m.s1, heap |-> m.heap, log |-> m.log],
                               m.in.malloc_ok[1]) IN
         [m EXCEPT !.s1 = r.b, !.heap = r.heap, !.log = r.log]

AllocState2(m) ==
    IF m.done THEN m
    ELSE LET r == alloc_buffer([b |-> m.s2, heap |-> m.heap, log |-> m.log],
                               m.in.malloc_ok[2]) IN
         [m EXCEPT !.s2 = r.b, !.heap = r.heap, !.log = r.log]

\* state_2 = state_1;
CopyState(m) ==
    IF m.done THEN m
    ELSE [Post(m, Ev("state_2 = state_1", m.s1.host, 0)) EXCEPT !.s2 = m.s1]

\* print_buffer(&state_1), in the cases of the two reaction_diffusion demos
PrintBuffer(m) ==
    IF m.done \/ Demo(m) < 2 THEN m
    ELSE Post(m, Ev("PostMessage_buffer", m.s1.host, 0))

\* QueryAllocInit with the allocations moved in front of the bounds query
QueryAllocInit_AllocFirst(m) ==
    LET m1 == AllocState1(m)
        m2 == Query(m1)
        m3 == CopyState(m2)
        m4 == AllocState2(m3)
        m5 == PrintBuffer(m4)
    IN  Pipeline(m5, "init", "init", m5.s1.host, 0)

\* one case of the first switch: query, copy, allocate both, initialize
QueryAllocInit(m) ==
    LET m1 == Query(m)
        m2 == CopyState(m1)
        m3 == AllocState1(m2)
        m4 == AllocState2(m3)
        m5 == PrintBuffer(m4)
    IN  Pipeline(m5, "init", "init", m5.s1.host, 0)

\* halide_last_t = 0; halide_time_weight = 0;
ResetTiming(m) ==
    Post(Post(m, Ev("halide_last_t", 0, 0)), Ev("halide_time_weight", 0, 0))

\* int threads = atoi(...); if (threads < 1) threads = 1;
\* if (threads > 32) threads = 32;
ClampThreads(t0) ==
    LET t1 == IF t0 < MinThreads THEN MinThreads ELSE t0
    IN  IF t1 > MaxThreads THEN MaxThreads ELSE t1

\* SetThreads without "thread_pool_size != threads"
SetThreads_AlwaysSets(m) ==
    IF ~m.in.is_string THEN m
    ELSE LET t2 == ClampThreads(m.in.threads)
         IN  IF t2 > 0 /\ t2 <= MaxThreads
             THEN ResetTiming([Post(m, Ev("halide_set_num_threads", t2, 0))
                                  EXCEPT !.tps = t2])
             ELSE m

\* if (var_message.is_string()) { ... halide_set_num_threads ... }
SetThreads(m) ==
    IF ~m.in.is_string THEN m
    ELSE LET t2 == ClampThreads(m.in.threads)
         IN  IF t2 > 0 /\ t2 <= MaxThreads /\ m.tps # t2
             THEN ResetTiming([Post(m, Ev("halide_set_num_threads", t2, 0))
                                  EXCEPT !.tps = t2])
             ELSE m

\* if (first_run) { first_run = false; halide_set_num_threads(...); }
FirstRun(m) ==
    IF m.first_run
    THEN [Post(m, Ev("halide_set_num_threads", m.tps, 0))
             EXCEPT !.first_run = FALSE]
    ELSE m

\* InitializeInput without free_buffer(&state_2)
InitializeInput_KeepState2(m) ==
    IF Demo(m) = m.last_demo THEN m
    ELSE LET m1 == [m EXCEPT !.last_demo = Demo(m)]
             m2 == ResetTiming(FreeState1(m1))
         IN  IF Demo(m) \in 0..(NumDemos - 1)
             THEN QueryAllocInit(m2)
             ELSE Return(Post(m2, Ev("PostMessage_bad_demo", 0, 0)))

\* if (demo != last_demo) { ... }
InitializeInput(m) ==
    IF Demo(m) = m.last_demo THEN m
    ELSE LET m1 == [m EXCEPT !.last_demo = Demo(m)]
             m2 == FreeState1(m1)
             m3 == ResetTiming(FreeState2(m2))
         IN  IF Demo(m) \in 0..(NumDemos - 1)
             THEN QueryAllocInit(m3)
             ELSE Return(Post(m3, Ev("PostMessage_bad_demo", 0, 0)))

\* if (pipeline_barfed) return;
CheckBarfed(m) == IF ~m.done /\ m.barfed THEN Return(m) ELSE m

\* one case of the second switch; a demo the switch has no case for runs
\* nothing
UpdateAndRender(m) ==
    IF Demo(m) \notin 0..(NumDemos - 1) THEN m
    ELSE LET m1 == Pipeline(m, "update", "update", m.s1.host, m.s2.host)
         IN  Pipeline(m1, "render", "render", m1.s2.host, RenderSite)

\* UpdateRender without std::swap(state_1, state_2)
UpdateRender_NoSwap(m) ==
    IF m.done THEN m ELSE UpdateAndRender(m)

\* the second switch, then std::swap(state_1, state_2)
UpdateRender(m) ==
    IF m.done THEN m
    ELSE LET m2 == UpdateAndRender(m)
         IN  IF m2.done THEN m2
             ELSE [m2 EXCEPT !.s1 = m2.s2, !.s2 = m2.s1]

\* PostMessage(timing); PaintImageData; graphics.Flush(callback)
Present(m) ==
    IF m.done THEN m
    ELSE [Post(Post(m, Ev("PostMessage_timing", 0, 0)), Ev("Flush", 0, 0))
             EXCEPT !.flush = TRUE, !.done = TRUE]

\* the handler after "if (busy) return; busy = true;"
HandleMessageBody(m) ==
    Present(CheckBarfed(UpdateRender(CheckBarfed(
        InitializeInput(FirstRun(SetThreads(m)))))))

\* HandleMessageRun without "if (busy) return;"
HandleMessageRun_NoBusyCheck(m) ==
    HandleMessageBody([m EXCEPT !.busy = TRUE])

\* if (busy) return; busy = true; ...
HandleMessageRun(m) ==
    IF m.busy THEN Return(m)
    ELSE HandleMessageBody([m EXCEPT !.busy = TRUE])

Machine(i, in) ==
    [i |-> i, in |-> in, s1 |-> state_1[i], s2 |-> state_2[i], heap |-> heap,
     barfed |-> pipeline_barfed, busy |-> busy, last_demo |-> last_demo,
     tps |-> thread_pool_size, first_run |-> first_run,
     flush |-> flush_pending, done |-> FALSE, crashed |-> FALSE,
     log |-> <<Ev("HandleMessage", i, IF in.is_string THEN in.demo ELSE 0)>>]

\* whether the handler, entered now with msg, reaches the first switch's
\* pipeline cases / the second switch
Initializes(msg) ==
    LET d == IF msg.is_string THEN msg.demo ELSE 0 IN
    ~busy /\ d # last_demo /\ d \in 0..(NumDemos - 1)

Computes(msg) ==
    LET d == IF msg.is_string THEN msg.demo ELSE 0 IN
    ~busy /\ (d = last_demo \/ d \in 0..(NumDemos - 1))

AllOk == [k \in 1..2 |-> TRUE]

\* the message and what the collaborators do while the handler runs: whether
\* each halide_malloc succeeds, which pipeline calls report an error, and
\* whether halide_error's use of a destroyed instance kills the process.  An
\* outcome the handler cannot consult in the current state is drawn as one
\* fixed value.
InputsOf(msg) ==
    { [is_string |-> msg.is_string, demo |-> msg.demo, threads |-> msg.threads,
       malloc_ok |-> ok, fails |-> f, ub_crash |-> ub] :
        ok \in (IF Initializes(msg) THEN [1..2 -> BOOLEAN] ELSE {AllOk}),
        f \in SUBSET (IF Initializes(msg) THEN CallSites
                      ELSE IF Computes(msg) THEN {"update", "render"}
                      ELSE {}),
        ub \in (IF inst # NULL /\ alive[inst] = "destroyed" /\ Computes(msg)
                THEN BOOLEAN ELSE {FALSE}) }

Inputs == UNION { InputsOf(msg) : msg \in Messages }

\* no image parameter and no scalar parameter is declared
NoImage == oip = <<>> /\ oip_ret = <<>>

NoParam == sp = <<>> /\ sp_ret = <<>>

\* no debug statement has run and no test app is loaded
NoTools == dbg = <<>> /\ runner = <<>>

(***************************************************************************)
(* The plugin.                                                             *)
(***************************************************************************)
Init ==
    /\ alive = [i \in Instances |-> "unborn"]
    /\ state_1 = [i \in Instances |-> InitBuffer]
    /\ state_2 = [i \in Instances |-> InitBuffer]
    /\ busy = FALSE
    /\ pipeline_barfed = FALSE
    /\ inst = NULL
    /\ last_demo = NoDemo
    /\ thread_pool_size = DefaultThreads
    /\ first_run = TRUE
    /\ flush_pending = FALSE
    /\ heap = EmptyHeap
    /\ crashed = FALSE
    /\ log = <<>>
    /\ ip_dims = 0
    /\ ip_args = <<>>
    /\ ip_out = [status |-> "unused", args |-> <<>>, err |-> "none", at |-> 0]
    /\ ip_conv = [status |-> "unused", args |-> <<>>, err |-> "none", at |-> 0]
    /\ NoImage
    /\ NoParam
    /\ NoTools

\* HalideDemosModule::CreateInstance / the HalideDemosInstance constructor
CreateInstance(i) ==
    /\ ~crashed
    /\ alive[i] = "unborn"
    /\ alive' = [alive EXCEPT ![i] = "alive"]
    /\ inst' = i
    /\ log' = <<Ev("construct", i, 0)>>
    /\ UNCHANGED <<state_1, state_2, busy, pipeline_barfed, last_demo,
                   thread_pool_size, first_run, flush_pending, heap, crashed>>
    /\ UNCHANGED ipvars

\* ~HalideDemosInstance: free(state_1.host); free(state_2.host);
Destructor(i) ==
    /\ ~crashed
    /\ alive[i] = "alive"
    /\ alive' = [alive EXCEPT ![i] = "destroyed"]
    /\ heap' = libc_free(libc_free(heap, state_1[i].host), state_2[i].host)
    /\ log' = <<Ev("destruct", i, 0), Ev("free", state_1[i].host, 0),
                Ev("free", state_2[i].host, 0)>>
    /\ UNCHANGED <<state_1, state_2, busy, pipeline_barfed, inst, last_demo,
                   thread_pool_size, first_run, flush_pending, crashed>>
    /\ UNCHANGED ipvars

\* HalideDemosInstance::HandleMessage, from entry to return, on one message
\* and one choice of what the collaborators do
HandleMessageOn(i, in) ==
    /\ ~crashed
    /\ alive[i] = "alive"
    /\ LET m == HandleMessageRun(Machine(i, in)) IN
         /\ state_1' = [state_1 EXCEPT ![i] = m.s1]
         /\ state_2' = [state_2 EXCEPT ![i] = m.s2]
         /\ busy' = m.busy
         /\ pipeline_barfed' = m.barfed
         /\ last_demo' = m.last_demo
         /\ thread_pool_size' = m.tps
         /\ first_run' = m.first_run
         /\ flush_pending' = m.flush
         /\ heap' = m.heap
         /\ crashed' = m.crashed
         /\ log' = m.log
    /\ UNCHANGED <<alive, inst>>
    /\ UNCHANGED ipvars

\* HalideDemosInstance::HandleMessage, from entry to return
HandleMessage(i) == \E in \in Inputs : HandleMessageOn(i, in)

\* void completion_callback(void *data, int32_t flags), run by the browser
\* when the Flush it was handed to completes
completion_callback ==
    /\ ~crashed
    /\ flush_pending
    /\ busy' = FALSE
    /\ flush_pending' = FALSE
    /\ log' = <<Ev("completion_callback", 0, 0)>>
    /\ UNCHANGED <<alive, state_1, state_2, pipeline_barfed, inst, last_demo,
                   thread_pool_size, first_run, heap, crashed>>
    /\ UNCHANGED ipvars

Next ==
    \/ \E i \in OneEmbed : CreateInstance(i)
    \/ \E i \in OneEmbed : Destructor(i)
    \/ \E i \in OneEmbed : HandleMessage(i)
    \/ completion_callback

Spec == Init /\ [][Next]_vars

\* the browser completes every Flush it was handed and then runs the
\* callback given with it
SpecLive == Spec /\ WF_vars(completion_callback)

(***************************************************************************)
(* A page with NumInstances embeds of the module.  The messages are those  *)
(* that select one of the first PageDemos demos with the default thread    *)
(* count, and every collaborator succeeds.                                 *)
(***************************************************************************)
PageMessages ==
    {[is_string |-> TRUE, demo |-> d, threads |-> DefaultThreads] :
        d \in 0..(PageDemos - 1)}

PageInputs ==
    {[is_string |-> msg.is_string, demo |-> msg.demo, threads |-> msg.threads,
      malloc_ok |-> AllOk, fails |-> {}, ub_crash |-> FALSE] :
        msg \in PageMessages}

NextPage ==
    \/ \E i \in Instances : CreateInstance(i)
    \/ \E i \in Instances : Destructor(i)
    \/ \E i \in Instances : \E in \in PageInputs : HandleMessageOn(i, in)
    \/ completion_callback

SpecPage == Init /\ [][NextPage]_vars

(***************************************************************************)
(* alloc_buffer and free_buffer on their own: the two descriptors of       *)
(* instance 1 start as one drawn descriptor and its copy, and are then     *)
(* allocated and released in any order.                                    *)
(***************************************************************************)
Descriptor(w) == IF w = 1 THEN state_1[1] ELSE state_2[1]

DescriptorAfter(w) == IF w = 1 THEN state_1'[1] ELSE state_2'[1]

InitBuffers ==
    /\ alive = [i \in Instances |-> "unborn"]
    /\ \E b \in BufferInputs :
         /\ state_1 = [i \in Instances |-> IF i = 1 THEN b ELSE InitBuffer]
         /\ state_2 = [i \in Instances |-> IF i = 1 THEN b ELSE InitBuffer]
    /\ busy = FALSE
    /\ pipeline_barfed = FALSE
    /\ inst = NULL
    /\ last_demo = NoDemo
    /\ thread_pool_size = DefaultThreads
    /\ first_run = TRUE
    /\ flush_pending = FALSE
    /\ heap = EmptyHeap
    /\ crashed = FALSE
    /\ log = <<>>
    /\ ip_dims = 0
    /\ ip_args = <<>>
    /\ ip_out = [status |-> "unused", args |-> <<>>, err |-> "none", at |-> 0]
    /\ ip_conv = [status |-> "unused", args |-> <<>>, err |-> "none", at |-> 0]
    /\ NoImage
    /\ NoParam
    /\ NoTools

StoreDescriptor(w, r) ==
    /\ state_1' = IF w = 1 THEN [state_1 EXCEPT ![1] = r.b] ELSE state_1
    /\ state_2' = IF w = 2 THEN [state_2 EXCEPT ![1] = r.b] ELSE state_2
    /\ heap' = r.heap
    /\ log' = r.log
    /\ UNCHANGED <<alive, busy, pipeline_barfed, inst, last_demo,
                   thread_pool_size, first_run, flush_pending, crashed>>
    /\ UNCHANGED ipvars

AllocBufferStep(w, ok) ==
    StoreDescriptor(w,
        alloc_buffer([b |-> Descriptor(w), heap |-> heap,
                      log |-> <<Ev("alloc_buffer", w, 0)>>], ok))

FreeBufferStep(w) ==
    StoreDescriptor(w,
        free_buffer([b |-> Descriptor(w), heap |-> heap,
                     log |-> <<Ev("free_buffer", w, 0)>>]))

NextBuffer ==
    \/ \E w \in 1..2 : \E ok \in BOOLEAN : AllocBufferStep(w, ok)
    \/ \E w \in 1..2 : FreeBufferStep(w)

SpecBuffer == InitBuffers /\ [][NextBuffer]_vars

(***************************************************************************)
(* ImageParam::operator().  A type is a category and a width; an           *)
(* expression is a variable or an opaque expression of some type, or a     *)
(* cast of one to Int(32).  A variable's name is a base and a numeric      *)
(* suffix: the placeholder is "_" with no suffix, Var::implicit(i) is "_"  *)
(* with suffix i.                                                          *)
(***************************************************************************)
Type(code, bits) == [code |-> code, bits |-> bits]

Int32 == Type("int", 32)

Expression(node, name, suffix, type) ==
    [node |-> node, name |-> name, suffix |-> suffix, type |-> type,
     of_node |-> "none", of_type |-> type]

\* Internal::Cast::make(Int(32), e)
Cast_make(e) ==
    [node |-> "Cast", name |-> e.name, suffix |-> e.suffix, type |-> Int32,
     of_node |-> e.node, of_type |-> e.type]

\* Var::implicit(i)
Var_implicit(i) == Expression("Variable", "_", i, Int32)

\* the placeholder _
Placeholder == Expression("Variable", "_", NoSuffix, Int32)

\* Var::is_placeholder(name)
Var_is_placeholder(name, suffix) == name = "_" /\ suffix = NoSuffix

\* const Variable *var = last_arg.as<Variable>();
\* bool is_placeholder = var && Var::is_placeholder(var->name);
IsPlaceholder(e) ==
    e.node = "Variable" /\ Var_is_placeholder(e.name, e.suffix)

\* the coordinates a call is made with
CoordInputs ==
    { Placeholder,
      Expression("Variable", "x", NoSuffix, Int32),
      Expression("Variable", "y", NoSuffix, Int32),
      Expression("Expr", "a", NoSuffix, Type("int", 16)),
      Expression("Expr", "b", NoSuffix, Type("uint", 8)),
      Expression("Expr", "f", NoSuffix, Type("float", 32)),
      Expression("Expr", "u", NoSuffix, Type("uint", 32)),
      Expression("Expr", "l", NoSuffix, Type("int", 64)) }

CoordLists == UNION { [1..n -> CoordInputs] : n \in 0..MaxCallArgs }

\* add_implicit_args_if_placeholder with the "+ 1" of the loop bound dropped
add_implicit_args_if_placeholder_NoPlusOne(st, last_arg, total_args, dims) ==
    IF st.err # "none" THEN st
    ELSE IF IsPlaceholder(last_arg)
    THEN IF st.placeholder_seen
         THEN [st EXCEPT !.err = "placeholder_twice",
                         !.at = Len(st.args) + 1]
         ELSE [st EXCEPT !.placeholder_seen = TRUE,
                         !.args = @ \o [i \in 1..(dims - total_args) |->
                                            Var_implicit(i - 1)]]
    ELSE [st EXCEPT !.args = Append(@, last_arg)]

\* add_implicit_args_if_placeholder without the user_assert on placeholder_seen
add_implicit_args_if_placeholder_NoSeenCheck(st, last_arg, total_args, dims) ==
    IF st.err # "none" THEN st
    ELSE IF IsPlaceholder(last_arg)
    THEN [st EXCEPT !.placeholder_seen = TRUE,
                    !.args = @ \o [i \in 1..(dims - total_args + 1) |->
                                       Var_implicit(i - 1)]]
    ELSE [st EXCEPT !.args = Append(@, last_arg)]

\* OutputImageParam::add_implicit_args_if_placeholder, on
\* st = [args, placeholder_seen, err, at]; a failed user_assert ends the call
add_implicit_args_if_placeholder(st, last_arg, total_args, dims) ==
    IF st.err # "none" THEN st
    ELSE IF IsPlaceholder(last_arg)
    THEN IF st.placeholder_seen
         THEN [st EXCEPT !.err = "placeholder_twice",
                         !.at = Len(st.args) + 1]
         ELSE [st EXCEPT !.placeholder_seen = TRUE,
                         !.args = @ \o [i \in 1..(dims - total_args + 1) |->
                                            Var_implicit(i - 1)]]
    ELSE [st EXCEPT !.args = Append(@, last_arg)]

\* the type test with "t.bits > 32" for unsigned types too
NoImplicitCast_StrictUint(t) ==
    \/ t.code = "float"
    \/ t.code = "uint" /\ t.bits > 32
    \/ t.code = "int" /\ t.bits > 32

\* t.is_float() || (t.is_uint() && t.bits >= 32) || (t.is_int() && t.bits > 32)
NoImplicitCast(t) ==
    \/ t.code = "float"
    \/ t.code = "uint" /\ t.bits >= 32
    \/ t.code = "int" /\ t.bits > 32

RECURSIVE CheckLoop(_, _)
\* for (size_t i = 0; i < args->size(); i++) { ... }
CheckLoop(st, i) ==
    IF i > Len(st.args) THEN st
    ELSE LET t == st.args[i].type IN
         IF NoImplicitCast(t)
         THEN [st EXCEPT !.err = "implicit_cast", !.at = i]
         ELSE IF t # Int32
         THEN CheckLoop([st EXCEPT !.args[i] = Cast_make(@)], i + 1)
         ELSE CheckLoop(st, i + 1)

\* check_arg_types without the user_assert on args->size()
check_arg_types_NoSizeCheck(st, dims) ==
    IF st.err # "none" THEN st
    ELSE CheckLoop(st, 1)

\* ImageParam::check_arg_types
check_arg_types(st, dims) ==
    IF st.err # "none" THEN st
    ELSE IF Len(st.args) # dims
    THEN [st EXCEPT !.err = "arg_count", !.at = Len(st.args)]
    ELSE CheckLoop(st, 1)

RECURSIVE AddArgs(_, _, _, _)
\* the add_implicit_args_if_placeholder calls of operator(), in order
AddArgs(st, coords, k, dims) ==
    IF k > Len(coords) THEN st
    ELSE AddArgs(add_implicit_args_if_placeholder(st, coords[k], Len(coords),
                                                  dims),
                 coords, k + 1, dims)

NoArgs == [args |-> <<>>, placeholder_seen |-> FALSE, err |-> "none", at |-> 0]

Outcome(st) ==
    [status |-> IF st.err = "none" THEN "ok" ELSE "error",
     args |-> st.args, err |-> st.err, at |-> st.at]

\* Expr operator()() const and the overloads of one to four coordinates
Sample(coords, dims) ==
    IF Len(coords) = 0
    THEN Outcome(IF dims = 0 THEN NoArgs
                 ELSE [NoArgs EXCEPT !.err = "zero_arg"])
    ELSE Outcome(check_arg_types(AddArgs(NoArgs, coords, 1, dims), dims))

\* operator Expr() written as the call with no arguments
operator_Expr_NoArgs(dims) == Sample(<<>>, dims)

\* operator Expr() const { return (*this)(_); }
operator_Expr(dims) == Sample(<<Placeholder>>, dims)

\* the plugin is not loaded
NoPlugin ==
    /\ alive = [i \in Instances |-> "unborn"]
    /\ state_1 = [i \in Instances |-> InitBuffer]
    /\ state_2 = [i \in Instances |-> InitBuffer]
    /\ busy = FALSE
    /\ pipeline_barfed = FALSE
    /\ inst = NULL
    /\ last_demo = NoDemo
    /\ thread_pool_size = DefaultThreads
    /\ first_run = TRUE
    /\ flush_pending = FALSE
    /\ heap = EmptyHeap
    /\ crashed = FALSE
    /\ log = <<>>

InitCall ==
    /\ NoPlugin
    /\ ip_dims \in 0..MaxDims
    /\ ip_args \in CoordLists
    /\ ip_out = [status |-> "pending", args |-> <<>>, err |-> "none", at |-> 0]
    /\ ip_conv = [status |-> "pending", args |-> <<>>, err |-> "none", at |-> 0]
    /\ NoImage
    /\ NoParam
    /\ NoTools

\* the call im(coords...) on an ImageParam of ip_dims dimensions
CallOperator ==
    /\ ip_out.status = "pending"
    /\ ip_out' = Sample(ip_args, ip_dims)
    /\ UNCHANGED <<ip_dims, ip_args, ip_conv>>
    /\ UNCHANGED <<imagevars, paramvars, toolvars>>
    /\ UNCHANGED sysvars

\* the conversion Expr(im) of an ImageParam of ip_dims dimensions
ConvertToExpr ==
    /\ ip_conv.status = "pending"
    /\ ip_conv' = operator_Expr(ip_dims)
    /\ UNCHANGED <<ip_dims, ip_args, ip_out>>
    /\ UNCHANGED <<imagevars, paramvars, toolvars>>
    /\ UNCHANGED sysvars

NextCall == CallOperator \/ ConvertToExpr

SpecCall == InitCall /\ [][NextCall]_vars

(***************************************************************************)
(* OutputImageParam.  The handle is its dims and its Internal::Parameter,  *)
(* which holds the name, the element type, the constraints of every        *)
(* dimension and the bound buffer.  Expressions are trees: IntImm,         *)
(* Variable, Add, Sub, or the undefined Expr.                              *)
(***************************************************************************)
Undefined == [node |-> "undefined"]

\* the Expr an int converts to
IntImm(v) == [node |-> "IntImm", type |-> Int32, value |-> v]

\* Internal::Variable::make(type, name, param)
Variable_make(t, name, param_name) ==
    [node |-> "Variable", type |-> t, name |-> name, param |-> param_name]

\* Internal::Add::make(a, b)
Add_make(a, b) == [node |-> "Add", type |-> a.type, a |-> a, b |-> b]

\* Internal::Sub::make(a, b)
Sub_make(a, b) == [node |-> "Sub", type |-> a.type, a |-> a, b |-> b]

DimIndices == 0..(MaxImageDims - 1)

\* a Buffer: undefined, or defined with a name and an element type
UndefinedBuffer == [defined |-> FALSE, name |-> "", type |-> Type("none", 0)]

Buffer(name, t) == [defined |-> TRUE, name |-> name, type |-> t]

\* Internal::Parameter(t, true, n)
Parameter(t, n) ==
    [name |-> n, type |-> t,
     min_constraint |-> [d \in DimIndices |-> Undefined],
     extent_constraint |-> [d \in DimIndices |-> Undefined],
     stride_constraint |-> [d \in DimIndices |-> Undefined],
     buffer |-> UndefinedBuffer]

\* Internal::Parameter::set_min_constraint and its siblings
Parameter_set_min_constraint(p, d, e) == [p EXCEPT !.min_constraint[d] = e]

Parameter_set_extent_constraint(p, d, e) ==
    [p EXCEPT !.extent_constraint[d] = e]

Parameter_set_stride_constraint(p, d, e) ==
    [p EXCEPT !.stride_constraint[d] = e]

\* Internal::Parameter::set_buffer
Parameter_set_buffer(p, b) == [p EXCEPT !.buffer = b]

\* ImageParam(Type t, int d, const std::string &n); calls counts the
\* constraint-setting calls made on the handle so far
ImageParam(t, d, n) == [dims |-> d, param |-> Parameter(t, n), calls |-> 0]

\* what a call on the handle gave back
Returned(e) == [status |-> "ok", expr |-> e]

Failed == [status |-> "error", expr |-> Undefined]

\* Expr min(int x) const
min(o, x) ==
    Variable_make(Int32, o.param.name \o ".min." \o ToString(x), o.param.name)

\* extent(x) returning the variable under the name min(x) uses
extent_NamedMin(o, x) ==
    Variable_make(Int32, o.param.name \o ".min." \o ToString(x), o.param.name)

\* extent(x) answering with the constraint when one is set
extent_Constraint(o, x) ==
    IF o.param.extent_constraint[x] # Undefined
    THEN o.param.extent_constraint[x]
    ELSE Variable_make(Int32, o.param.name \o ".extent." \o ToString(x),
                       o.param.name)

\* Expr extent(int x) const
extent(o, x) ==
    Variable_make(Int32, o.param.name \o ".extent." \o ToString(x),
                  o.param.name)

\* Expr stride(int x) const
stride(o, x) ==
    Variable_make(Int32, o.param.name \o ".stride." \o ToString(x),
                  o.param.name)

\* set_stride handing its expression to set_extent_constraint
set_stride_SetsExtent(o, dim, e) ==
    [o EXCEPT !.param = Parameter_set_extent_constraint(@, dim, e),
              !.calls = @ + 1]

\* OutputImageParam &set_extent(int dim, Expr extent)
set_extent(o, dim, e) ==
    [o EXCEPT !.param = Parameter_set_extent_constraint(@, dim, e),
              !.calls = @ + 1]

\* OutputImageParam &set_min(int dim, Expr min)
set_min(o, dim, e) ==
    [o EXCEPT !.param = Parameter_set_min_constraint(@, dim, e),
              !.calls = @ + 1]

\* OutputImageParam &set_stride(int dim, Expr stride)
set_stride(o, dim, e) ==
    [o EXCEPT !.param = Parameter_set_stride_constraint(@, dim, e),
              !.calls = @ + 1]

\* OutputImageParam &set_bounds(int dim, Expr min, Expr extent)
set_bounds(o, dim, m, e) == set_extent(set_min(o, dim, m), dim, e)

\* Expr left() const
left(o) == IF o.dims > 0 THEN Returned(min(o, 0)) ELSE Failed

\* right() without the "- 1"
right_NoMinusOne(o) ==
    IF o.dims > 0
    THEN Returned(Add_make(min(o, 0), extent(o, 0)))
    ELSE Failed

\* Expr right() const
right(o) ==
    IF o.dims > 0
    THEN Returned(Add_make(min(o, 0), Sub_make(extent(o, 0), IntImm(1))))
    ELSE Failed

\* top() asserting dims > 0 as left() does
top_AssertsOneDim(o) == IF o.dims > 0 THEN Returned(min(o, 1)) ELSE Failed

\* Expr top() const
top(o) == IF o.dims > 1 THEN Returned(min(o, 1)) ELSE Failed

\* Expr bottom() const
bottom(o) ==
    IF o.dims > 1
    THEN Returned(Add_make(min(o, 1), Sub_make(extent(o, 1), IntImm(1))))
    ELSE Failed

\* Expr width() const
width(o) == IF o.dims > 0 THEN Returned(extent(o, 0)) ELSE Failed

\* Expr height() const
height(o) == IF o.dims > 1 THEN Returned(extent(o, 1)) ELSE Failed

\* Expr channels() const
channels(o) == IF o.dims > 2 THEN Returned(extent(o, 2)) ELSE Failed

\* set(b) without the user_assert on the buffer's type
set_NoTypeCheck(o, b) ==
    [obj |-> [o EXCEPT !.param = Parameter_set_buffer(@, b)],
     status |-> "ok", named |-> <<>>]

\* void ImageParam::set(Buffer b); named is the types the error message
\* prints: type() and b.type()
set(o, b) ==
    IF b.defined /\ b.type # o.param.type
    THEN [obj |-> o, status |-> "error", named |-> <<o.param.type, b.type>>]
    ELSE [obj |-> [o EXCEPT !.param = Parameter_set_buffer(@, b)],
          status |-> "ok", named |-> <<>>]

\* Internal::Parameter::get_buffer
Parameter_get_buffer(p) == p.buffer

\* Buffer ImageParam::get() const
get(o) == Parameter_get_buffer(o.param)

\* the names, expressions and buffers the calls are made with
ImageNames == {"im", "out"}

ElementType == Type("uint", 8)

\* a min of 0, an extent of 100 or of 0, a stride of 1
ConstraintInputs(f) ==
    CASE f = "set_min" -> {IntImm(0)}
      [] f = "set_extent" -> {IntImm(100), IntImm(0)}
      [] f = "set_stride" -> {IntImm(1)}

BufferArgs ==
    {UndefinedBuffer, Buffer("b", ElementType), Buffer("g", Type("float", 32))}

AccessorNames == {"min", "extent", "stride"}

DerivedNames ==
    {"left", "right", "top", "bottom", "width", "height", "channels"}

SetterNames == {"set_min", "set_extent", "set_stride"}

Call(op, d, status, e) ==
    [op |-> op, d |-> d, status |-> status, expr |-> e]

InitImage ==
    /\ NoPlugin
    /\ ip_dims = 0
    /\ ip_args = <<>>
    /\ ip_out = [status |-> "unused", args |-> <<>>, err |-> "none", at |-> 0]
    /\ ip_conv = [status |-> "unused", args |-> <<>>, err |-> "none", at |-> 0]
    /\ \E d \in 0..MaxImageDims : \E n \in ImageNames :
           oip = ImageParam(ElementType, d, n)
    /\ oip_ret = Call("construct", 0, "ok", Undefined)
    /\ NoParam
    /\ NoTools

OtherThanImage ==
    /\ UNCHANGED callvars
    /\ UNCHANGED paramvars
    /\ UNCHANGED toolvars
    /\ UNCHANGED sysvars

\* the accessor called f
Access(o, f, x) ==
    CASE f = "min" -> min(o, x)
      [] f = "extent" -> extent(o, x)
      [] f = "stride" -> stride(o, x)

\* im.min(x), im.extent(x), im.stride(x)
Accessor(f, x) ==
    /\ oip_ret' = Call(f, x, "ok", Access(oip, f, x))
    /\ UNCHANGED oip
    /\ OtherThanImage

\* im.left(), im.right(), ..., im.channels()
Derived(f) ==
    /\ LET r == CASE f = "left" -> left(oip)
                  [] f = "right" -> right(oip)
                  [] f = "top" -> top(oip)
                  [] f = "bottom" -> bottom(oip)
                  [] f = "width" -> width(oip)
                  [] f = "height" -> height(oip)
                  [] f = "channels" -> channels(oip)
       IN  oip_ret' = Call(f, 0, r.status, r.expr)
    /\ UNCHANGED oip
    /\ OtherThanImage

\* im.set_min(d, e), im.set_extent(d, e), im.set_stride(d, e); each returns
\* *this
Setter(f, d, e) ==
    /\ oip.calls < MaxSetCalls
    /\ d < oip.dims
    /\ oip' = CASE f = "set_min" -> set_min(oip, d, e)
                [] f = "set_extent" -> set_extent(oip, d, e)
                [] f = "set_stride" -> set_stride(oip, d, e)
    /\ oip_ret' = Call(f, d, "ok", e)
    /\ OtherThanImage

\* im.set_bounds(d, m, e)
SetBounds(d, m, e) ==
    /\ oip.calls + 1 < MaxSetCalls
    /\ d < oip.dims
    /\ oip' = set_bounds(oip, d, m, e)
    /\ oip_ret' = [op |-> "set_bounds", d |-> d, status |-> "ok", expr |-> e,
                   min |-> m]
    /\ OtherThanImage

\* im.set(b)
SetBuffer(b) ==
    /\ LET r == set(oip, b) IN
       /\ oip' = r.obj
       /\ oip_ret' = [op |-> "set", d |-> 0, status |-> r.status,
                      expr |-> Undefined, buffer |-> b, named |-> r.named]
    /\ OtherThanImage

\* im.get()
GetBuffer ==
    /\ oip_ret' = [op |-> "get", d |-> 0, status |-> "ok",
                   expr |-> Undefined, buffer |-> get(oip)]
    /\ UNCHANGED oip
    /\ OtherThanImage

NextImage ==
    \/ \E f \in AccessorNames : \E x \in DimIndices : Accessor(f, x)
    \/ \E f \in DerivedNames : Derived(f)
    \/ \E f \in SetterNames : \E d \in DimIndices :
           \E e \in ConstraintInputs(f) : Setter(f, d, e)
    \/ \E d \in DimIndices : \E m \in ConstraintInputs("set_min") :
           \E e \in ConstraintInputs("set_extent") : SetBounds(d, m, e)
    \/ \E b \in BufferArgs : SetBuffer(b)
    \/ GetBuffer

SpecImage == InitImage /\ [][NextImage]_vars

(***************************************************************************)
(* Param<T>.  The handle is its Internal::Parameter, which holds the name, *)
(* the type T and the two optional bounds.                                 *)
(***************************************************************************)
\* a floating-point constant
FloatImm(v) == [node |-> "FloatImm", type |-> Type("float", 32), value |-> v]

\* Internal::Cast::make(t, e)
Cast_make_to(t, e) == [node |-> "Cast", type |-> t, value |-> e]

\* Internal::Parameter(type_of<T>(), false, n)
ScalarParameter(t, n) ==
    [name |-> n, type |-> t, min_value |-> Undefined, max_value |-> Undefined]

\* Internal::Parameter::set_min_value, set_max_value
Parameter_set_min_value(p, e) == [p EXCEPT !.min_value = e]

Parameter_set_max_value(p, e) == [p EXCEPT !.max_value = e]

\* Param(const std::string &n), of type T
Param(t, n) == [type |-> t, param |-> ScalarParameter(t, n)]

\* void set_min_value(Expr min)
set_min_value(o, e) ==
    LET m == IF e.type # o.type THEN Cast_make_to(o.type, e) ELSE e
    IN  [o EXCEPT !.param = Parameter_set_min_value(@, m)]

\* set_max_value storing its argument as it comes
set_max_value_NoCast(o, e) ==
    [o EXCEPT !.param = Parameter_set_max_value(@, e)]

\* void set_max_value(Expr max)
set_max_value(o, e) ==
    LET m == IF e.type # o.type THEN Cast_make_to(o.type, e) ELSE e
    IN  [o EXCEPT !.param = Parameter_set_max_value(@, m)]

\* void set_range(Expr min, Expr max)
set_range(o, mn, mx) == set_max_value(set_min_value(o, mn), mx)

\* the declared types and the bound expressions the calls are made with
ParamTypes == {Int32, Type("float", 32), Type("uint", 8)}

ParamNames == {"p", "__user_context"}

RangeInputs ==
    {IntImm(0), IntImm(5), FloatImm(1),
     Variable_make(Type("uint", 8), "k", "k")}

RangeCall(op, mn, mx) == [op |-> op, min |-> mn, max |-> mx]

InitParam ==
    /\ NoPlugin
    /\ ip_dims = 0
    /\ ip_args = <<>>
    /\ ip_out = [status |-> "unused", args |-> <<>>, err |-> "none", at |-> 0]
    /\ ip_conv = [status |-> "unused", args |-> <<>>, err |-> "none", at |-> 0]
    /\ NoImage
    /\ \E t \in ParamTypes : \E n \in ParamNames : sp = Param(t, n)
    /\ sp_ret = RangeCall("construct", Undefined, Undefined)
    /\ NoTools

OtherThanParam ==
    /\ UNCHANGED callvars
    /\ UNCHANGED imagevars
    /\ UNCHANGED toolvars
    /\ UNCHANGED sysvars

\* p.set_min_value(e)
SetMinValue(e) ==
    /\ sp' = set_min_value(sp, e)
    /\ sp_ret' = RangeCall("set_min_value", e, Undefined)
    /\ OtherThanParam

\* p.set_max_value(e)
SetMaxValue(e) ==
    /\ sp' = set_max_value(sp, e)
    /\ sp_ret' = RangeCall("set_max_value", Undefined, e)
    /\ OtherThanParam

\* p.set_range(mn, mx)
SetRange(mn, mx) ==
    /\ sp' = set_range(sp, mn, mx)
    /\ sp_ret' = RangeCall("set_range", mn, mx)
    /\ OtherThanParam

NextParam ==
    \/ \E e \in RangeInputs : SetMinValue(e)
    \/ \E e \in RangeInputs : SetMaxValue(e)
    \/ \E mn, mx \in RangeInputs : SetRange(mn, mx)

SpecParam == InitParam /\ [][NextParam]_vars

(***************************************************************************)
(* Debug.h.  dbg holds the environment variable HL_DEBUG_CODEGEN (set or   *)
(* not, and its text as a sequence of characters), the statics of struct   *)
(* debug, what the last statement wrote to std::cerr, and whether the      *)
(* process has aborted.                                                    *)
(***************************************************************************)
DigitChars == <<"0", "1", "2", "3", "4", "5", "6", "7", "8", "9">>

IsDigit(c) == \E i \in DOMAIN DigitChars : DigitChars[i] = c

DigitValue(c) == (CHOOSE i \in DOMAIN DigitChars : DigitChars[i] = c) - 1

RECURSIVE AtoiDigits(_, _, _)
AtoiDigits(str, k, acc) ==
    IF k > Len(str) \/ ~IsDigit(str[k]) THEN acc
    ELSE AtoiDigits(str, k + 1, acc * Len(DigitChars) + DigitValue(str[k]))

\* atoi: an optional sign, then the leading digits
atoi(str) ==
    IF Len(str) > 0 /\ str[1] = "-" THEN 0 - AtoiDigits(str, 2, 0)
    ELSE IF Len(str) > 0 /\ str[1] = "+" THEN AtoiDigits(str, 2, 0)
    ELSE AtoiDigits(str, 1, 0)

\* getenv("HL_DEBUG_CODEGEN"): null, or the text
Unset == [set |-> FALSE, text |-> <<>>]

Setting(text) == [set |-> TRUE, text |-> text]

EnvInputs ==
    {Unset, Setting(<<>>), Setting(<<"0">>), Setting(<<"1">>),
     Setting(<<"2">>), Setting(<<"-", "1">>), Setting(<<"1", "x">>)}

\* std::cerr << x
cerr_print(d, x) == [d EXCEPT !.cerr = Append(@, x)]

RECURSIVE cerr_print_all(_, _, _)
cerr_print_all(d, xs, k) ==
    IF k > Len(xs) THEN d ELSE cerr_print_all(cerr_print(d, xs[k]), xs, k + 1)

\* debug(int v) : verbosity(v) { if (!initialized) { ... } }
debug_ctor(d) ==
    IF ~d.initialized
    THEN [d EXCEPT !.debug_level = IF d.env.set THEN atoi(d.env.text) ELSE 0,
                   !.initialized = TRUE]
    ELSE d

\* debug &operator<<(T x)
debug_stream(d, verbosity, x) ==
    IF verbosity > d.debug_level THEN d ELSE cerr_print(d, x)

RECURSIVE debug_stream_all(_, _, _, _)
debug_stream_all(d, verbosity, xs, k) ==
    IF k > Len(xs) THEN d
    ELSE debug_stream_all(debug_stream(d, verbosity, xs[k]), verbosity, xs,
                          k + 1)

\* debug(v) << x1 << x2 ...;
debug_statement(d, v, xs) == debug_stream_all(debug_ctor(d), v, xs, 1)

\* error_report(bool c, bool u, bool w, const char *f, int l); loc is what
\* get_source_location() returned
error_report_ctor(d, condition, user, warning, loc) ==
    IF condition THEN d
    ELSE IF user
    THEN LET d1 == debug_statement(d, 1, <<"User error triggered at ", "f",
                                           ":", "l", "\n">>)
             d2 == cerr_print(d1, IF warning THEN "Warning" ELSE "Error")
         IN  IF loc = "" THEN cerr_print(d2, ":\n")
             ELSE cerr_print_all(d2, <<" at ", loc, ":\n">>, 1)
    ELSE LET d1 == cerr_print(d, "Internal ")
             d2 == cerr_print(d1, IF warning THEN "warning" ELSE "error")
             d3 == cerr_print_all(d2, <<" at ", "f", ":", "l">>, 1)
         IN  IF loc # ""
             THEN cerr_print_all(d3, <<" triggered by user code at ", loc,
                                       ":\n">>, 1)
             ELSE cerr_print(d3, "\n")

\* error_report &operator<<(T x)
error_report_stream(d, condition, x) ==
    IF condition THEN d ELSE cerr_print(d, x)

RECURSIVE error_report_stream_all(_, _, _, _)
error_report_stream_all(d, condition, xs, k) ==
    IF k > Len(xs) THEN d
    ELSE error_report_stream_all(error_report_stream(d, condition, xs[k]),
                                 condition, xs, k + 1)

\* abort()
abort(d) == [d EXCEPT !.cerr = Append(@, "abort()"), !.aborted = TRUE]

\* ~error_report() aborting for a warning as well
error_report_dtor_AbortsOnWarning(d, condition, warning) ==
    IF condition THEN d ELSE abort(d)

\* ~error_report()
error_report_dtor(d, condition, warning) ==
    IF condition THEN d
    ELSE IF ~warning THEN abort(d) ELSE d

\* the macros: internal_error, internal_assert(c), user_error,
\* user_assert(c), user_warning
ReportKinds ==
    {"internal_error", "internal_assert", "user_error", "user_assert",
     "user_warning"}

MacroCondition(kind, c) ==
    IF kind \in {"internal_assert", "user_assert"} THEN c ELSE FALSE

MacroUser(kind) == kind \in {"user_error", "user_assert", "user_warning"}

MacroWarning(kind) == kind = "user_warning"

\* <macro> << x1 << x2 ...;  the temporary is destroyed at the end of the
\* statement
report_statement(d, kind, c, xs, loc) ==
    error_report_dtor(
        error_report_stream_all(
            error_report_ctor(d, MacroCondition(kind, c), MacroUser(kind),
                              MacroWarning(kind), loc),
            MacroCondition(kind, c), xs, 1),
        MacroCondition(kind, c), MacroWarning(kind))

\* the operands, verbosities and source locations the statements are made of
Operands == {"m1", "m2"}

OperandLists == UNION { [1..n -> Operands] : n \in 0..MaxOperands }

Verbosities == 0..MaxVerbosity

SourceLocations == {"", "user.cpp:7"}

Statement(kind, v, c, xs, loc) ==
    [kind |-> kind, v |-> v, c |-> c, ops |-> xs, loc |-> loc]

InitDebug ==
    /\ NoPlugin
    /\ ip_dims = 0
    /\ ip_args = <<>>
    /\ ip_out = [status |-> "unused", args |-> <<>>, err |-> "none", at |-> 0]
    /\ ip_conv = [status |-> "unused", args |-> <<>>, err |-> "none", at |-> 0]
    /\ NoImage
    /\ NoParam
    /\ \E e \in EnvInputs :
           dbg = [env |-> e, debug_level |-> 0, initialized |-> FALSE,
                  cerr |-> <<>>, aborted |-> FALSE,
                  last |-> Statement("none", 0, TRUE, <<>>, "")]
    /\ runner = <<>>

OtherThanDebug ==
    /\ UNCHANGED callvars
    /\ UNCHANGED imagevars
    /\ UNCHANGED paramvars
    /\ UNCHANGED runner
    /\ UNCHANGED sysvars

\* the environment variable is changed while the process runs
Setenv(e) ==
    /\ ~dbg.aborted
    /\ dbg' = [dbg EXCEPT !.env = e]
    /\ OtherThanDebug

\* debug(v) << x1 << ...;
DebugStatement(v, xs) ==
    /\ ~dbg.aborted
    /\ dbg' = debug_statement([dbg EXCEPT !.cerr = <<>>,
                                          !.last = Statement("debug", v, TRUE,
                                                             xs, "")],
                              v, xs)
    /\ OtherThanDebug

\* user_assert(c) << x1 << ...; and the other four macros
ReportStatement(kind, c, xs, loc) ==
    /\ ~dbg.aborted
    /\ dbg' = report_statement([dbg EXCEPT !.cerr = <<>>,
                                           !.last = Statement(kind, 0, c, xs,
                                                              loc)],
                               kind, c, xs, loc)
    /\ OtherThanDebug

NextDebug ==
    \/ \E e \in EnvInputs : Setenv(e)
    \/ \E v \in Verbosities : \E xs \in OperandLists : DebugStatement(v, xs)
    \/ \E kind \in ReportKinds : \E c \in BOOLEAN : \E xs \in OperandLists :
           \E loc \in SourceLocations : ReportStatement(kind, c, xs, loc)

SpecDebug == InitDebug /\ [][NextDebug]_vars

(***************************************************************************)
(* AppDelegate.m, the test application.  runner holds the value of the     *)
(* page's AppTestSymbols (nil, or its characters) and what the last run    *)
(* of webView:didFinishLoadForFrame: did: the dlsym lookups, the calls of  *)
(* test functions and the messages given to echo.                          *)
(***************************************************************************)
Nil == [nil |-> TRUE, text |-> <<>>]

NSString(text) == [nil |-> FALSE, text |-> text]

NameChars == {"a", "b", ","}

SymbolInputs ==
    {Nil} \cup { NSString(t) : t \in UNION { [1..n -> NameChars] :
                                              n \in 0..MaxSymbolsLen } }

\* the functions the app process exports
Exported == {<<"a">>, <<"a", "b">>}

\* what a test function returns: zero on success
TestResults == {0, 1}

ResultInputs == [1..(MaxSymbolsLen + 1) -> TestResults]

\* [names componentsSeparatedByString:@","]
RECURSIVE componentsSeparatedByString(_, _, _, _)
componentsSeparatedByString(text, k, cur, acc) ==
    IF k > Len(text) THEN Append(acc, cur)
    ELSE IF text[k] = ","
    THEN componentsSeparatedByString(text, k + 1, <<>>, Append(acc, cur))
    ELSE componentsSeparatedByString(text, k + 1, Append(cur, text[k]), acc)

RunnerEvent(ev, name, result) == [ev |-> ev, name |-> name, result |-> result]

\* dlsym(RTLD_DEFAULT, name.UTF8String)
dlsym(name) == RunnerEvent("dlsym", name, 0)

\* int result = func();
func(name, result) == RunnerEvent("call", name, result)

\* [self echo:...] with each of the three messages
echo_hint == RunnerEvent("echo hint", <<>>, 0)

echo_not_found(name) == RunnerEvent("echo not found", name, 0)

echo_returned(name, result) == RunnerEvent("echo returned", name, result)

\* the loop over the names, leaving it at the first name that is not found
RECURSIVE for_name_in_StopsAtMissing(_, _, _, _)
for_name_in_StopsAtMissing(names, k, rs, out) ==
    IF k > Len(names) THEN out
    ELSE IF names[k] \notin Exported
    THEN out \o <<dlsym(names[k]), echo_not_found(names[k])>>
    ELSE for_name_in_StopsAtMissing(names, k + 1, rs,
             out \o <<dlsym(names[k]), func(names[k], rs[k]),
                      echo_returned(names[k], rs[k])>>)

\* for (NSString* name in ...) { dlsym; if (!func) { echo; continue; }
\* result = func(); echo; }
RECURSIVE for_name_in(_, _, _, _)
for_name_in(names, k, rs, out) ==
    IF k > Len(names) THEN out
    ELSE IF names[k] \notin Exported
    THEN for_name_in(names, k + 1, rs,
             out \o <<dlsym(names[k]), echo_not_found(names[k])>>)
    ELSE for_name_in(names, k + 1, rs,
             out \o <<dlsym(names[k]), func(names[k], rs[k]),
                      echo_returned(names[k], rs[k])>>)

\* - (void)webView:didFinishLoadForFrame:
didFinishLoadForFrame(names, rs) ==
    IF names.nil \/ Len(names.text) = 0 THEN <<echo_hint>>
    ELSE for_name_in(componentsSeparatedByString(names.text, 1, <<>>, <<>>),
                     1, rs, <<>>)

InitRunner ==
    /\ NoPlugin
    /\ ip_dims = 0
    /\ ip_args = <<>>
    /\ ip_out = [status |-> "unused", args |-> <<>>, err |-> "none", at |-> 0]
    /\ ip_conv = [status |-> "unused", args |-> <<>>, err |-> "none", at |-> 0]
    /\ NoImage
    /\ NoParam
    /\ dbg = <<>>
    /\ runner = [requested |-> FALSE, names |-> Nil, loads |-> 0, log |-> <<>>]

OtherThanRunner ==
    /\ UNCHANGED callvars
    /\ UNCHANGED imagevars
    /\ UNCHANGED paramvars
    /\ UNCHANGED dbg
    /\ UNCHANGED sysvars

\* - (void)applicationDidFinishLaunching: requests index.html, whose script
\* defines AppTestSymbols or does not
applicationDidFinishLaunching(names) ==
    /\ ~runner.requested
    /\ runner' = [runner EXCEPT !.requested = TRUE, !.names = names]
    /\ OtherThanRunner

\* the frame load delegate is called when a frame has finished loading
webView_didFinishLoadForFrame(rs) ==
    /\ runner.requested
    /\ runner.loads < MaxLoads
    /\ runner' = [runner EXCEPT !.loads = @ + 1,
                                !.log = didFinishLoadForFrame(runner.names, rs)]
    /\ OtherThanRunner

NextRunner ==
    \/ \E names \in SymbolInputs : applicationDidFinishLaunching(names)
    \/ \E rs \in ResultInputs : webView_didFinishLoadForFrame(rs)

SpecRunner == InitRunner /\ [][NextRunner]_vars

(***************************************************************************)
(* What a run of the handler did, read off its log.                        *)
(***************************************************************************)
IsHandle(l) == Len(l) > 0 /\ l[1].op = "HandleMessage"

At(l, op) == {k \in 1..Len(l) : l[k].op = op}

\* the render call of the first switch / the calls that compute
Queries(l) == {k \in At(l, "render") : l[k].b = QuerySite}

ComputeCalls(l) ==
    At(l, "init") \cup At(l, "update") \cup
    {k \in At(l, "render") : l[k].b = RenderSite}

Allocs(l) == At(l, "halide_malloc")

Errors(l) == At(l, "PostMessage_error")

\* the host allocations an instance's descriptors hold
Held(i) == {state_1[i].host, state_2[i].host} \ {NULL}

(***************************************************************************)
(* C1: within one initialization of a demo the handler first invokes the   *)
(* render pipeline in query mode (state_1's host pointer null), then       *)
(* allocates state_1 and state_2 with the size the reported extents imply, *)
(* and only then invokes a computing pipeline (init, update, render): no   *)
(* allocation precedes the query, no compute call precedes the second      *)
(* allocation.                                                             *)
(***************************************************************************)
C1_QueryThenAllocThenCompute ==
    (IsHandle(log) /\ ~crashed /\ (Allocs(log) # {} \/ Queries(log) # {}
                                    \/ At(log, "init") # {})) =>
        /\ Cardinality(Queries(log)) = 1
        /\ Cardinality(Allocs(log)) = 2
        /\ Cardinality(At(log, "init")) = 1
        /\ \A q \in Queries(log) :
             /\ log[q].a = NULL
             /\ \A a \in Allocs(log) : q < a
        /\ \A a \in Allocs(log) :
             /\ log[a].a = AllocSize(QueryShape(log[1].b))
             /\ \A c \in ComputeCalls(log) : a < c
        /\ \A c \in At(log, "init") :
             \E a \in Allocs(log) :
                 /\ log[c].a = log[a].b
                 /\ \A a2 \in Allocs(log) : a <= a2

C1_Witness ==
    /\ IsHandle(log)
    /\ Cardinality(Allocs(log)) = 2
    /\ \A a \in Allocs(log) : log[a].b # NULL
    /\ At(log, "init") # {}
    /\ At(log, "update") # {}
    /\ At(log, "Flush") # {}

(***************************************************************************)
(* C2: a message that selects another demo releases both state buffers     *)
(* before the new query and allocation; an instance never holds more than  *)
(* two live allocations and no live allocation is left that no descriptor  *)
(* of a living instance refers to (no leak).                               *)
(***************************************************************************)
C2_ReleaseBeforeRequery ==
    /\ \A p \in heap.live :
         \E i \in Instances : alive[i] = "alive" /\ p \in Held(i)
    /\ Cardinality(heap.live)
          <= 2 * Cardinality({i \in Instances : alive[i] = "alive"})
    /\ IsHandle(log) =>
         \A f \in At(log, "halide_free") :
             /\ \A q \in Queries(log) : f < q
             /\ \A a \in Allocs(log) : f < a

C2_Witness ==
    /\ IsHandle(log)
    /\ Cardinality(At(log, "halide_free")) = 2
    /\ Queries(log) # {}
    /\ Cardinality(heap.live) = 2

(***************************************************************************)
(* C3: every host buffer obtained from halide_malloc is released exactly   *)
(* once and by halide_free, on every exit path of the instance: demo       *)
(* switch, early return, destruction.                                      *)
(***************************************************************************)
C3_ReleasedOnceByHalideFree ==
    /\ ~heap.double_free
    /\ ~heap.foreign_free
    /\ \A p \in heap.live :
         \E i \in Instances : alive[i] = "alive" /\ p \in Held(i)

(***************************************************************************)
(* C6: when halide_malloc returns null for either state buffer, the        *)
(* failure is reported, neither state_1 nor state_2 is left holding an     *)
(* allocation, and neither init nor update is invoked on the descriptors.  *)
(***************************************************************************)
C6_AllocFailureLeavesNothing ==
    (IsHandle(log) /\ \E a \in Allocs(log) : log[a].b = NULL) =>
        /\ Held(log[1].a) = {}
        /\ At(log, "init") = {}
        /\ At(log, "update") = {}
        /\ At(log, "PostMessage_timing") = {}

(***************************************************************************)
(* C7: once halide_error has reported a pipeline failure, no compute call  *)
(* (init, update, render) is issued any more: not later in the same run of *)
(* HandleMessage, and not in a later run.                                  *)
(***************************************************************************)
C7_NoComputeAfterError ==
    [][IsHandle(log') =>
         /\ \A e \in Errors(log') : \A c \in ComputeCalls(log') : c < e
         /\ (pipeline_barfed /\ log'[1].b = last_demo) => ComputeCalls(log') = {}
      ]_vars

(***************************************************************************)
(* C8: a reported failure suppresses the pipeline calls only until the     *)
(* next full re-initialization: with the failure latched and no request in *)
(* flight, a message that selects a different, valid demo runs query,      *)
(* allocation and init again, and then update and render.                  *)
(***************************************************************************)
C8_ReinitAfterFailure ==
    [][(/\ IsHandle(log')
        /\ pipeline_barfed
        /\ ~flush_pending
        /\ log'[1].b # last_demo
        /\ log'[1].b \in 0..(NumDemos - 1)
        /\ Errors(log') = {})
       => /\ Queries(log') # {}
          /\ Allocs(log') # {}
          /\ At(log', "init") # {}
          /\ At(log', "update") # {}
      ]_vars

(***************************************************************************)
(* C9: at most one request is in flight.  A message that arrives while     *)
(* busy is set returns at once: it frees and allocates nothing, leaves the *)
(* demo selection and the thread-pool size alone and calls no pipeline;    *)
(* busy is cleared by completion_callback only.                            *)
(***************************************************************************)
C9_BusyMessageIgnored ==
    [][/\ (busy /\ IsHandle(log')) =>
             /\ Len(log') = 1
             /\ UNCHANGED <<state_1, state_2, heap, last_demo,
                            thread_pool_size, first_run, pipeline_barfed,
                            busy, flush_pending>>
       /\ (busy /\ ~busy') =>
             /\ flush_pending
             /\ log' = <<Ev("completion_callback", 0, 0)>>
       /\ flush_pending' => busy'
      ]_vars

C9_Witness ==
    /\ flush_pending
    /\ busy
    /\ IsHandle(log)
    /\ Len(log) = 1
    /\ heap.live # {}

(***************************************************************************)
(* C4: free_buffer on a descriptor with a non-null host pointer frees that *)
(* pointer once and sets host to null; on a descriptor whose host is null  *)
(* it frees nothing and changes nothing.  It is idempotent, and no         *)
(* sequence of free_buffer calls frees an allocation twice.                *)
(***************************************************************************)
C4_FreeBufferOnce ==
    [][(Len(log') > 0 /\ log'[1].op = "free_buffer") =>
         LET w == log'[1].a
             b == Descriptor(w)
             after == [b |-> DescriptorAfter(w), heap |-> heap', log |-> <<>>]
         IN  /\ DescriptorAfter(w) = [b EXCEPT !.host = NULL]
             /\ DescriptorAfter(3 - w) = Descriptor(3 - w)
             /\ b.host # NULL =>
                   /\ log' = <<log'[1], Ev("halide_free", b.host, 0)>>
                   /\ b.host \in heap.live
                   /\ heap'.live = heap.live \ {b.host}
             /\ b.host = NULL => Len(log') = 1 /\ heap' = heap
             /\ ~heap'.double_free
             /\ free_buffer(after) = after
      ]_vars

C4_Witness ==
    /\ Len(log) = 2
    /\ log[1].op = "free_buffer"
    /\ log[2].op = "halide_free"
    /\ Descriptor(log[1].a).host = NULL
    /\ log[2].a \notin heap.live

(***************************************************************************)
(* C5: alloc_buffer asks halide_malloc for the element size in bytes times *)
(* the extents of the dimensions in [0, dimensions), an extent of zero     *)
(* counting as 1, stores the returned pointer in host and leaves every     *)
(* min, extent and stride, the dimensionality and the type as they were.   *)
(***************************************************************************)
ExtentFactor(b, d) ==
    IF d <= b.dimensions /\ b.dim[d].extent # 0 THEN b.dim[d].extent ELSE 1

ExpectedBytes(b) ==
    b.bytes * ExtentFactor(b, 1) * ExtentFactor(b, 2) * ExtentFactor(b, 3)

C5_AllocBufferSize ==
    [][(Len(log') > 0 /\ log'[1].op = "alloc_buffer") =>
         LET w == log'[1].a
             b == Descriptor(w)
         IN  /\ Len(log') = 2
             /\ log'[2].op = "halide_malloc"
             /\ log'[2].a = ExpectedBytes(b)
             /\ DescriptorAfter(w) = [b EXCEPT !.host = log'[2].b]
             /\ DescriptorAfter(3 - w) = Descriptor(3 - w)
             /\ log'[2].b # NULL =>
                   /\ log'[2].b \notin heap.live
                   /\ heap'.live = heap.live \cup {log'[2].b}
                   /\ heap'.size[log'[2].b] = ExpectedBytes(b)
      ]_vars

C5_Witness ==
    /\ Len(log) = 2
    /\ log[1].op = "alloc_buffer"
    /\ log[2].b # NULL
    /\ LET b == Descriptor(log[1].a) IN
       /\ b.host = log[2].b
       /\ b.dimensions = 3
       /\ b.dim[2].extent = 0
       /\ b.dim[1].extent > 1
       /\ log[2].a = b.bytes * b.dim[1].extent * b.dim[3].extent
       /\ log[2].a > b.bytes

(***************************************************************************)
(* C10: a call with N coordinates (1 <= N <= 4), exactly one of them the   *)
(* placeholder, at position k, on an ImageParam of D >= N-1 dimensions:    *)
(* the placeholder is replaced where it stands by the D-N+1 implicit       *)
(* variables 0 .. D-N, the other N-1 coordinates keep their order around   *)
(* it and the final list has D entries, wherever the placeholder stands;   *)
(* the call succeeds when the other coordinates may be used as indices.    *)
(***************************************************************************)
PlaceholderAt(coords) == {k \in 1..Len(coords) : IsPlaceholder(coords[k])}

SameOrigin(e, c) == e.name = c.name /\ e.suffix = c.suffix

C10_PlaceholderExpansion ==
    (/\ ip_out.status \in {"ok", "error"}
     /\ Len(ip_args) \in 1..MaxCallArgs
     /\ Cardinality(PlaceholderAt(ip_args)) = 1
     /\ ip_dims >= Len(ip_args) - 1) =>
        LET n == Len(ip_args)
            k == CHOOSE j \in PlaceholderAt(ip_args) : TRUE
            extra == ip_dims - n + 1
            out == ip_out.args
        IN  /\ Len(out) = ip_dims
            /\ ip_out.err \in {"none", "implicit_cast"}
            /\ \A j \in 1..(k - 1) : SameOrigin(out[j], ip_args[j])
            /\ \A j \in 1..extra :
                   /\ out[k - 1 + j].node = "Variable"
                   /\ out[k - 1 + j].name = "_"
                   /\ out[k - 1 + j].suffix = j - 1
            /\ \A j \in (k + 1)..n :
                   SameOrigin(out[j + extra - 1], ip_args[j])
            /\ (\A j \in 1..n : ~NoImplicitCast(ip_args[j].type))
                   => ip_out.status = "ok"

C10_Witness ==
    /\ ip_out.status = "ok"
    /\ Len(ip_args) = 3
    /\ PlaceholderAt(ip_args) = {2}
    /\ ip_dims = 4
    /\ Len(ip_out.args) = 4
    /\ ip_out.args[2].suffix = 0
    /\ ip_out.args[3].suffix = 1
    /\ ip_out.args[1].name = "x"
    /\ ip_out.args[4].name = "a"

(***************************************************************************)
(* C11: a call whose coordinate list holds the placeholder more than once  *)
(* fails with the "only one placeholder" usage error, raised when the      *)
(* second placeholder is reached (the list built so far holds what the     *)
(* coordinates before it contributed and nothing after it), for every      *)
(* dimensionality and every pair of positions, whatever the types of the   *)
(* other coordinates; no load expression is produced.                      *)
(***************************************************************************)
CallDone == ip_out.status \in {"ok", "error"}

Second(S) == CHOOSE j \in S : Cardinality({i \in S : i < j}) = 1

ImplicitCount(n, d) == IF d - n + 1 > 0 THEN d - n + 1 ELSE 0

C11_SecondPlaceholderFails ==
    (CallDone /\ Cardinality(PlaceholderAt(ip_args)) >= 2) =>
        LET k2 == Second(PlaceholderAt(ip_args)) IN
        /\ ip_out.status = "error"
        /\ ip_out.err = "placeholder_twice"
        /\ Len(ip_out.args) = (k2 - 2) + ImplicitCount(Len(ip_args), ip_dims)
        /\ ip_out.at = Len(ip_out.args) + 1

C11_Witness ==
    /\ ip_out.status = "error"
    /\ ip_out.err = "placeholder_twice"
    /\ PlaceholderAt(ip_args) = {1, 4}
    /\ ip_dims = 4
    /\ ip_args[2].name = "f"
    /\ Len(ip_out.args) = 3

(***************************************************************************)
(* C12: with at most one placeholder among the N coordinates, a call       *)
(* succeeds only if the final list has D entries: without a placeholder    *)
(* only if N = D, with one placeholder only if D >= N-1, with no argument  *)
(* only if D = 0.  Every other combination fails with the usage error      *)
(* that reports the count of the final list and D, whatever the types;     *)
(* an accepted combination fails only for the type of a coordinate.        *)
(***************************************************************************)
CountAccepted(coords, d) ==
    LET n == Len(coords)
        ph == Cardinality(PlaceholderAt(coords))
    IN  \/ n = 0 /\ d = 0
        \/ n >= 1 /\ ph = 0 /\ n = d
        \/ n >= 1 /\ ph = 1 /\ d >= n - 1

IndexTypeRefused(t) ==
    \/ t.code = "float"
    \/ t.code = "uint" /\ t.bits >= 32
    \/ t.code = "int" /\ t.bits > 32

\* the list operator() hands to check_arg_types
Finalized == AddArgs(NoArgs, ip_args, 1, ip_dims)

C13_IndexTypes ==
    (/\ CallDone
     /\ Len(ip_args) >= 1
     /\ Finalized.err = "none"
     /\ Len(Finalized.args) = ip_dims) =>
        LET pre == Finalized.args
            bad == {j \in 1..Len(pre) : IndexTypeRefused(pre[j].type)}
        IN  IF bad # {}
            THEN /\ ip_out.status = "error"
                 /\ ip_out.err = "implicit_cast"
                 /\ ip_out.at \in bad
                 /\ \A j \in bad : ip_out.at <= j
                 /\ ip_out.args[ip_out.at] = pre[ip_out.at]
            ELSE /\ ip_out.status = "ok"
                 /\ Len(ip_out.args) = Len(pre)
                 /\ \A j \in 1..Len(pre) :
                        /\ ip_out.args[j].type = Int32
                        /\ pre[j].type = Int32 => ip_out.args[j] = pre[j]
                        /\ pre[j].type # Int32 =>
                               /\ ip_out.args[j].node = "Cast"
                               /\ ip_out.args[j].of_type = pre[j].type
                               /\ ip_out.args[j].of_node = pre[j].node
                               /\ SameOrigin(ip_out.args[j], pre[j])

C13_Witness ==
    /\ ip_out.status = "ok"
    /\ ip_dims = 3
    /\ Len(ip_args) = 3
    /\ ip_args[1].name = "a"
    /\ ip_args[2].name = "x"
    /\ ip_args[3].name = "b"
    /\ ip_out.args[1].node = "Cast"
    /\ ip_out.args[1].of_type = Type("int", 16)
    /\ ip_out.args[2] = ip_args[2]
    /\ ip_out.args[3].of_type = Type("uint", 8)

C13_WitnessRefused ==
    /\ ip_out.status = "error"
    /\ ip_out.err = "implicit_cast"
    /\ ip_dims = 3
    /\ Len(ip_args) = 3
    /\ ip_args[1].name = "a"
    /\ ip_args[2].name = "u"
    /\ ip_args[3].name = "f"
    /\ ip_out.at = 2

(***************************************************************************)
(* C14: the conversion of an ImageParam of D >= 0 dimensions to an         *)
(* expression never fails, yields the load at the D implicit variables     *)
(* 0 .. D-1 in order, and is what the call with the placeholder as its     *)
(* only coordinate yields.                                                 *)
(***************************************************************************)
ConvDone == ip_conv.status \in {"ok", "error"}

C14_ConversionIsPlaceholderCall ==
    /\ ConvDone =>
           /\ ip_conv.status = "ok"
           /\ Len(ip_conv.args) = ip_dims
           /\ \A j \in 1..ip_dims :
                  /\ ip_conv.args[j].node = "Variable"
                  /\ ip_conv.args[j].name = "_"
                  /\ ip_conv.args[j].suffix = j - 1
                  /\ ip_conv.args[j].type = Int32
    /\ (ConvDone /\ CallDone /\ ip_args = <<Placeholder>>) => ip_conv = ip_out

C14_Witness ==
    /\ ConvDone
    /\ CallDone
    /\ ip_args = <<Placeholder>>
    /\ ip_dims = 3
    /\ Len(ip_conv.args) = 3
    /\ ip_conv.args[3].suffix = 2

(***************************************************************************)
(* C15 as stated: once set_extent(0, 100) is the constraint in force,      *)
(* extent(0) returns the constant 100, whatever buffer is bound.           *)
(***************************************************************************)
ExtentZeroReadAfterSet ==
    /\ oip # <<>>
    /\ oip.dims > 0
    /\ oip.param.extent_constraint[0] = IntImm(100)
    /\ oip_ret.op = "extent"
    /\ oip_ret.d = 0

C15_ExtentReturnsConstant ==
    ExtentZeroReadAfterSet =>
        /\ oip_ret.expr.node = "IntImm"
        /\ oip_ret.expr.value = 100

(***************************************************************************)
(* C15 amended: after set_extent(0, 100), extent(0) still returns the      *)
(* Int(32) variable named <name>.extent.0 that refers to the parameter,    *)
(* not the constant; the constant 100 stays recorded as the parameter's    *)
(* extent constraint of dimension 0.  Both hold whatever buffer is or is   *)
(* not bound.                                                              *)
(***************************************************************************)
C15_ExtentReturnsVariable ==
    ExtentZeroReadAfterSet =>
        /\ oip_ret.status = "ok"
        /\ oip_ret.expr.node = "Variable"
        /\ oip_ret.expr.type = Int32
        /\ oip_ret.expr.name = oip.param.name \o ".extent.0"
        /\ oip_ret.expr.param = oip.param.name
        /\ oip_ret.expr # IntImm(100)

C15_Witness ==
    /\ ExtentZeroReadAfterSet
    /\ oip.param.buffer.defined
    /\ oip_ret.expr.node = "Variable"

(***************************************************************************)
(* C16: left, right and width fail with a usage error when dims < 1, top,  *)
(* bottom and height when dims < 2, channels when dims < 3, and succeed    *)
(* otherwise; on success left is the variable of min(0), top of min(1),    *)
(* width of extent(0), height of extent(1), channels of extent(2).         *)
(***************************************************************************)
DecimalDigits == <<"0", "1", "2", "3", "4", "5", "6", "7", "8", "9">>

\* the Int(32) variable <name>.<field>.<d> of the parameter
DimVariable(field, d) ==
    [node |-> "Variable", type |-> Int32,
     name |-> oip.param.name \o "." \o field \o "." \o DecimalDigits[d + 1],
     param |-> oip.param.name]

RequiredDims(f) ==
    CASE f \in {"left", "right", "width"} -> 1
      [] f \in {"top", "bottom", "height"} -> 2
      [] f = "channels" -> 3

C16_DerivedAccessors ==
    (oip # <<>> /\ oip_ret.op \in DerivedNames) =>
        /\ oip_ret.status = "error" <=> oip.dims < RequiredDims(oip_ret.op)
        /\ oip_ret.status = "ok" <=> oip.dims >= RequiredDims(oip_ret.op)
        /\ oip_ret.status = "ok" =>
               /\ oip_ret.op = "left" => oip_ret.expr = DimVariable("min", 0)
               /\ oip_ret.op = "top" => oip_ret.expr = DimVariable("min", 1)
               /\ oip_ret.op = "width" =>
                      oip_ret.expr = DimVariable("extent", 0)
               /\ oip_ret.op = "height" =>
                      oip_ret.expr = DimVariable("extent", 1)
               /\ oip_ret.op = "channels" =>
                      oip_ret.expr = DimVariable("extent", 2)
               /\ oip_ret.op \in {"right", "bottom"} =>
                      oip_ret.expr.node = "Add"

C16_Witness ==
    /\ oip # <<>>
    /\ oip.dims = 1
    /\ oip_ret.op = "top"
    /\ oip_ret.status = "error"

C16_WitnessChannels ==
    /\ oip # <<>>
    /\ oip.dims = 3
    /\ oip_ret.op = "channels"
    /\ oip_ret.status = "ok"

(***************************************************************************)
(* C17: for every value of the min and extent variables, the expression    *)
(* right() builds evaluates to min(0) + extent(0) - 1 and the one bottom() *)
(* builds to min(1) + extent(1) - 1, in the two's-complement arithmetic    *)
(* of the variables' width (WordBits bits here).                           *)
(***************************************************************************)
Modulus == 2 ^ WordBits

Words == (0 - Modulus \div 2)..(Modulus \div 2 - 1)

Wrap(v) == ((v + Modulus \div 2) % Modulus) - Modulus \div 2

RECURSIVE Eval(_, _)
Eval(e, env) ==
    CASE e.node = "IntImm" -> Wrap(e.value)
      [] e.node = "Variable" -> env[e.name]
      [] e.node = "Add" -> Wrap(Eval(e.a, env) + Eval(e.b, env))
      [] e.node = "Sub" -> Wrap(Eval(e.a, env) - Eval(e.b, env))

C17_RightAndBottom ==
    (/\ oip # <<>>
     /\ oip_ret.op \in {"right", "bottom"}
     /\ oip_ret.status = "ok") =>
        LET k == IF oip_ret.op = "right" THEN 0 ELSE 1 IN
        \A mn \in Words : \A ex \in Words :
            Eval(oip_ret.expr,
                 (DimVariable("min", k).name :> mn)
                     @@ (DimVariable("extent", k).name :> ex))
                = Wrap(Wrap(mn + ex) - 1)

C17_Witness ==
    /\ oip # <<>>
    /\ oip_ret.op = "bottom"
    /\ oip_ret.status = "ok"
    /\ oip.dims = 2
    /\ Eval(oip_ret.expr, ("im.min.1" :> 1) @@ ("im.extent.1" :> 3)) = 3
    /\ Eval(oip_ret.expr, ("im.min.1" :> 3) @@ ("im.extent.1" :> 3))
           = 0 - 3

(***************************************************************************)
(* C18: for d in [0, dims), min(d), extent(d) and stride(d) return the     *)
(* Int(32) variables named <name>.min.<d>, <name>.extent.<d> and           *)
(* <name>.stride.<d>; the 3*dims names of one parameter are pairwise       *)
(* distinct; constraints set on the parameter change none of them.         *)
(***************************************************************************)
C18_AccessorNames ==
    (/\ oip # <<>>
     /\ oip_ret.op \in AccessorNames
     /\ oip_ret.d < oip.dims) =>
        /\ oip_ret.status = "ok"
        /\ oip_ret.expr = DimVariable(oip_ret.op, oip_ret.d)
        /\ \A g \in AccessorNames : \A c \in 0..(oip.dims - 1) :
               (g # oip_ret.op \/ c # oip_ret.d) =>
                   Access(oip, g, c).name # oip_ret.expr.name

C18_Witness ==
    /\ oip # <<>>
    /\ oip.dims = 3
    /\ oip_ret.op = "stride"
    /\ oip_ret.d = 2
    /\ oip_ret.expr.name = "out.stride.2"
    /\ oip.param.stride_constraint[2] = IntImm(1)
    /\ oip.param.extent_constraint[2] = IntImm(100)

(***************************************************************************)
(* C20: a set_min, set_extent or set_stride step on dimension d records    *)
(* the given expression as that one constraint of d and changes no other   *)
(* constraint, nor dims, name, element type or bound buffer; it succeeds   *)
(* whatever is bound and allocates nothing.  The handle returned is the    *)
(* one called on, so that set_bounds(d, m, e), the chain                   *)
(* set_min(d, m).set_extent(d, e), leaves both constraints on it and       *)
(* nothing else changed.                                                   *)
(***************************************************************************)
SetterStep(f) == oip_ret'.op = f /\ oip' # oip

SameButConstraints ==
    /\ oip'.dims = oip.dims
    /\ oip'.param.name = oip.param.name
    /\ oip'.param.type = oip.param.type
    /\ oip'.param.buffer = oip.param.buffer
    /\ oip_ret'.status = "ok"
    /\ heap' = heap

C20_SettersFrame ==
    [][ /\ SetterStep("set_min") =>
            /\ SameButConstraints
            /\ oip'.param.min_constraint =
                   [oip.param.min_constraint EXCEPT ![oip_ret'.d] = oip_ret'.expr]
            /\ oip'.param.extent_constraint = oip.param.extent_constraint
            /\ oip'.param.stride_constraint = oip.param.stride_constraint
        /\ SetterStep("set_extent") =>
            /\ SameButConstraints
            /\ oip'.param.extent_constraint =
                   [oip.param.extent_constraint EXCEPT ![oip_ret'.d] = oip_ret'.expr]
            /\ oip'.param.min_constraint = oip.param.min_constraint
            /\ oip'.param.stride_constraint = oip.param.stride_constraint
        /\ SetterStep("set_stride") =>
            /\ SameButConstraints
            /\ oip'.param.stride_constraint =
                   [oip.param.stride_constraint EXCEPT ![oip_ret'.d] = oip_ret'.expr]
            /\ oip'.param.min_constraint = oip.param.min_constraint
            /\ oip'.param.extent_constraint = oip.param.extent_constraint
        /\ SetterStep("set_bounds") =>
            /\ SameButConstraints
            /\ oip'.param.min_constraint =
                   [oip.param.min_constraint EXCEPT ![oip_ret'.d] = oip_ret'.min]
            /\ oip'.param.extent_constraint =
                   [oip.param.extent_constraint EXCEPT ![oip_ret'.d] = oip_ret'.expr]
            /\ oip'.param.stride_constraint = oip.param.stride_constraint
      ]_vars

C20_Witness ==
    /\ oip # <<>>
    /\ oip_ret.op = "set_stride"
    /\ oip_ret.d = 1
    /\ oip.param.stride_constraint[1] = IntImm(1)
    /\ oip.param.min_constraint[1] = IntImm(0)
    /\ oip.param.extent_constraint[1] = Undefined
    /\ oip.param.buffer.defined

C20_WitnessBounds ==
    /\ oip # <<>>
    /\ oip_ret.op = "set_bounds"
    /\ oip_ret.d = 2
    /\ oip.param.min_constraint[2] = IntImm(0)
    /\ oip.param.extent_constraint[2] = IntImm(100)

(***************************************************************************)
(* C19: after every set_min_value, set_max_value and set_range step on a   *)
(* Param<T>, each bound that is set has type T: an argument of type T is   *)
(* stored as given, an argument of another type as the cast of it to T.    *)
(* set_min_value leaves the maximum alone and set_max_value the minimum;   *)
(* set_range(min, max) stores what set_min_value(min) followed by          *)
(* set_max_value(max) stores, also when min is greater than max.           *)
(***************************************************************************)
StoredAs(e) ==
    IF e.type = sp.type THEN e
    ELSE [node |-> "Cast", type |-> sp.type, value |-> e]

BoundsTyped(o) ==
    /\ o.param.min_value # Undefined => o.param.min_value.type = o.type
    /\ o.param.max_value # Undefined => o.param.max_value.type = o.type

C19_WitnessUnchanged ==
    /\ sp # <<>>
    /\ sp.type = Int32
    /\ sp_ret.op = "set_max_value"
    /\ sp.param.max_value = IntImm(5)
    /\ sp.param.min_value.node = "Cast"

(***************************************************************************)
(* C21: a set(b) step with a defined buffer whose element type is not the  *)
(* parameter's fails with the usage error that names the parameter's type  *)
(* and the buffer's, and the buffer bound before stays bound; with a       *)
(* buffer of the declared type or an undefined buffer it succeeds and b is *)
(* bound; get() returns the buffer that is bound.                          *)
(***************************************************************************)
C21_SetChecksElementType ==
    [][ /\ (oip_ret'.op = "set" /\ <<oip, oip_ret>>' # <<oip, oip_ret>>) =>
            LET b == oip_ret'.buffer IN
            IF b.defined /\ b.type # oip.param.type
            THEN /\ oip_ret'.status = "error"
                 /\ oip_ret'.named = <<oip.param.type, b.type>>
                 /\ oip'.param.buffer = oip.param.buffer
                 /\ oip' = oip
            ELSE /\ oip_ret'.status = "ok"
                 /\ oip'.param.buffer = b
                 /\ oip' = [oip EXCEPT !.param.buffer = b]
        /\ (oip_ret'.op = "get" /\ <<oip, oip_ret>>' # <<oip, oip_ret>>) =>
            /\ oip_ret'.buffer = oip.param.buffer
            /\ oip' = oip
            /\ oip_ret.op = "set" /\ oip_ret.status = "ok" =>
                   oip_ret'.buffer = oip_ret.buffer
      ]_vars

C21_Witness ==
    /\ oip # <<>>
    /\ oip_ret.op = "set"
    /\ oip_ret.status = "error"
    /\ oip_ret.buffer.type = Type("float", 32)
    /\ oip.param.buffer = Buffer("b", ElementType)

C21_WitnessGet ==
    /\ oip # <<>>
    /\ oip_ret.op = "get"
    /\ oip_ret.buffer = Buffer("b", ElementType)

(***************************************************************************)
(* C26: for every dimensionality, the conversion of an ImageParam to an    *)
(* expression gives the outcome of the call with no arguments,             *)
(* operator()().                                                           *)
(***************************************************************************)
C26_ConversionIsZeroArgCall ==
    (ConvDone /\ CallDone /\ ip_args = <<>>) => ip_conv = ip_out

(***************************************************************************)
(* C22: a report whose condition holds (user_assert(c), internal_assert(c) *)
(* with c true) prints nothing and does not abort.  A failed assert, a     *)
(* user_error or an internal_error prints its header, then every streamed  *)
(* part in order, and aborts after the last of them.  user_warning prints  *)
(* header and parts and does not abort.                                    *)
(***************************************************************************)
ReportFails(l) ==
    \/ l.kind \in {"user_error", "internal_error", "user_warning"}
    \/ l.kind \in {"user_assert", "internal_assert"} /\ ~l.c

HeaderWords == {"Error", "Warning", "Internal "}

C22_ReportThenAbort ==
    (dbg # <<>> /\ dbg.last.kind \in ReportKinds) =>
        LET l == dbg.last
            out == dbg.cerr
            fatal == l.kind # "user_warning"
            tail == Len(l.ops) + (IF fatal THEN 1 ELSE 0)
            h == Len(out) - tail
        IN  IF ~ReportFails(l)
            THEN out = <<>> /\ ~dbg.aborted
            ELSE /\ h >= 1
                 /\ \E i \in 1..h : out[i] \in HeaderWords
                 /\ \A i \in 1..h : out[i] \notin Operands
                 /\ \A i \in 1..Len(l.ops) : out[h + i] = l.ops[i]
                 /\ \A i \in 1..(Len(out) - 1) : out[i] # "abort()"
                 /\ fatal <=> out[Len(out)] = "abort()"
                 /\ fatal <=> dbg.aborted

C22_Witness ==
    /\ dbg # <<>>
    /\ dbg.last.kind = "user_assert"
    /\ ~dbg.last.c
    /\ dbg.last.ops = <<"m2", "m1">>
    /\ dbg.aborted
    /\ dbg.debug_level = 1
    /\ dbg.cerr[1] = "User error triggered at "

C22_WitnessWarning ==
    /\ dbg # <<>>
    /\ dbg.last.kind = "user_warning"
    /\ dbg.last.ops = <<"m1">>
    /\ ~dbg.aborted
    /\ Len(dbg.cerr) > 1

(***************************************************************************)
(* C27: a debug statement of verbosity 0 prints its operands whatever      *)
(* HL_DEBUG_CODEGEN is set to, and a debug statement of verbosity v prints *)
(* its operands exactly when v is not greater than the level read from     *)
(* the variable on first use.                                              *)
(***************************************************************************)
C27_VerbosityZeroAlwaysPrints ==
    (dbg # <<>> /\ dbg.last.kind = "debug") =>
        /\ dbg.initialized
        /\ dbg.last.v = 0 => dbg.cerr = dbg.last.ops
        /\ dbg.cerr = IF dbg.last.v <= dbg.debug_level THEN dbg.last.ops
                      ELSE <<>>

(***************************************************************************)
(* C28: after a load, the names between the commas of AppTestSymbols are   *)
(* looked up in order, once each; a name that is not found is echoed as    *)
(* not found and the names after it are still processed; a found function  *)
(* is called once and its return value echoed before the next lookup; a    *)
(* nil or empty list calls nothing and echoes only the hint.               *)
(***************************************************************************)
RECURSIVE JoinWithCommas(_, _)
JoinWithCommas(names, k) ==
    IF k > Len(names) THEN <<>>
    ELSE IF k = Len(names) THEN names[k]
    ELSE names[k] \o <<",">> \o JoinWithCommas(names, k + 1)

RECURSIVE LookedUp(_, _)
LookedUp(events, k) ==
    IF k > Len(events) THEN <<>>
    ELSE IF events[k].ev = "dlsym"
    THEN <<events[k].name>> \o LookedUp(events, k + 1)
    ELSE LookedUp(events, k + 1)

RunnerRan == runner # <<>> /\ runner.loads > 0

C28_RunnerProcessesList ==
    RunnerRan =>
        LET out == runner.log
            names == LookedUp(out, 1)
        IN  IF runner.names.nil \/ runner.names.text = <<>>
            THEN out = <<echo_hint>>
            ELSE /\ JoinWithCommas(names, 1) = runner.names.text
                 /\ \A i \in DOMAIN names : \A j \in DOMAIN names[i] :
                        names[i][j] # ","
                 /\ out[1].ev = "dlsym"
                 /\ \A i \in DOMAIN out :
                        /\ out[i].ev # "echo hint"
                        /\ out[i].ev = "dlsym" =>
                               /\ i < Len(out)
                               /\ out[i + 1] \in
                                      { func(out[i].name, r) : r \in TestResults }
                                        \cup {echo_not_found(out[i].name)}
                               /\ out[i + 1].ev = "call" <=>
                                      out[i].name \in Exported
                        /\ out[i].ev = "call" =>
                               /\ i < Len(out)
                               /\ out[i - 1] = dlsym(out[i].name)
                               /\ out[i + 1] =
                                      echo_returned(out[i].name, out[i].result)
                        /\ out[i].ev \in {"echo not found", "echo returned"} =>
                               /\ out[i - 1].ev =
                                      (IF out[i].ev = "echo returned" THEN "call"
                                       ELSE "dlsym")
                               /\ i < Len(out) => out[i + 1].ev = "dlsym"

C28_Witness ==
    /\ RunnerRan
    /\ runner.names.text = <<"b", ",", "a">>
    /\ runner.log = <<dlsym(<<"b">>), echo_not_found(<<"b">>), dlsym(<<"a">>),
                      func(<<"a">>, 1), echo_returned(<<"a">>, 1)>>

C28_WitnessHint ==
    /\ RunnerRan
    /\ ~runner.names.nil
    /\ runner.names.text = <<>>
    /\ runner.log = <<echo_hint>>

(***************************************************************************)
(* C29: every thread count handed to halide_set_num_threads lies in        *)
(* MinThreads..MaxThreads.  A handler run calls the setter only as the     *)
(* first handled message's call, with the current thread_pool_size, or     *)
(* with a count that differs from the thread_pool_size the run found, and  *)
(* that call is followed at once by the two timing statistics being set    *)
(* to zero.                                                                *)
(***************************************************************************)
SetterCalls(l) == At(l, "halide_set_num_threads")

FollowedByReset(l, k) ==
    /\ k + 2 <= Len(l)
    /\ l[k + 1] = Ev("halide_last_t", 0, 0)
    /\ l[k + 2] = Ev("halide_time_weight", 0, 0)

C29_ThreadCount ==
    [][IsHandle(log') =>
          /\ thread_pool_size' \in MinThreads..MaxThreads
          /\ \A k \in SetterCalls(log') :
                /\ log'[k].a \in MinThreads..MaxThreads
                /\ log'[k].a = thread_pool_size'
                /\ \/ /\ first_run
                      /\ ~first_run'
                      /\ \A j \in SetterCalls(log') : j <= k
                   \/ /\ log'[k].a # thread_pool_size
                      /\ FollowedByReset(log', k)
          /\ (SetterCalls(log') = {} /\ ~busy) =>
                 /\ ~first_run
                 /\ thread_pool_size' = thread_pool_size
          /\ (~first_run /\ thread_pool_size' = thread_pool_size) =>
                 SetterCalls(log') = {}]_vars

C29_Witness ==
    /\ IsHandle(log)
    /\ \E k \in SetterCalls(log) :
          /\ SetterCalls(log) = {k}
          /\ log[k].a = MaxThreads
          /\ FollowedByReset(log, k)
    /\ thread_pool_size = MaxThreads

C29_WitnessFirst ==
    /\ IsHandle(log)
    /\ \E j, k \in SetterCalls(log) :
          /\ j < k
          /\ log[j].a = MinThreads
          /\ FollowedByReset(log, j)
          /\ log[k].a = MinThreads
    /\ thread_pool_size = MinThreads
    /\ ~first_run

(***************************************************************************)
(* C25: state_1 and state_2 of an instance never hold the same host        *)
(* allocation.  state_2 = state_1 copies a descriptor whose host is null;  *)
(* the two are then allocated by two calls of halide_malloc, which return  *)
(* different allocations; an update reads state_1 and writes state_2, and  *)
(* the swap that follows exchanges the two whole descriptors, so the       *)
(* allocation an update wrote is state_1's, the one the next update reads. *)
(***************************************************************************)
Copies(l) == At(l, "state_2 = state_1")

C25_StatesNeverAlias ==
    [][/\ \A i \in Instances :
             state_1'[i].host # NULL => state_1'[i].host # state_2'[i].host
       /\ IsHandle(log') =>
             LET i == log'[1].a IN
             /\ \A c \in Copies(log') :
                    /\ log'[c].a = NULL
                    /\ \A a \in Allocs(log') : c < a
             /\ Queries(log') # {} => Cardinality(Copies(log')) = 1
             /\ \A a, b \in Allocs(log') :
                    (a # b /\ log'[a].b # NULL) => log'[a].b # log'[b].b
             /\ \A u \in At(log', "update") :
                    /\ Queries(log') = {} =>
                           /\ log'[u].a = state_1[i].host
                           /\ log'[u].b = state_2[i].host
                           /\ ~crashed' =>
                                  /\ state_1'[i] = state_2[i]
                                  /\ state_2'[i] = state_1[i]
                    /\ ~crashed' =>
                           /\ state_1'[i].host = log'[u].b
                           /\ state_2'[i].host = log'[u].a]_vars

\* a second update in a row: it read what the one before wrote
C25_Witness ==
    /\ IsHandle(log)
    /\ Queries(log) = {}
    /\ \E u \in At(log, "update") :
          /\ log[u].a # NULL
          /\ log[u].b # NULL
          /\ state_1[log[1].a].host = log[u].b
          /\ state_2[log[1].a].host = log[u].a

C25_WitnessCopy ==
    /\ IsHandle(log)
    /\ \E c \in Copies(log) : \E a, b \in Allocs(log) :
          /\ c < a
          /\ a < b
          /\ log[a].b # NULL
          /\ log[b].b # NULL
    /\ state_1[log[1].a].host # NULL
    /\ state_2[log[1].a].host # NULL

(***************************************************************************)
(* C24: whenever busy is set (a handler run has set it), busy is later     *)
(* cleared, whichever way the handler was left, unless the process died.   *)
(***************************************************************************)
C24_BusyEventuallyCleared == (busy /\ ~crashed) ~> (~busy \/ crashed)

(***************************************************************************)
(* C23: an update or a computing render is issued only on host buffers     *)
(* that are not null and that the instance handling the message holds in   *)
(* its own state_1 and state_2, whatever messages the instances of the     *)
(* page have handled before.                                               *)
(***************************************************************************)
C23_ComputeOnOwnBuffers ==
    (IsHandle(log) /\ ~crashed) =>
        LET i == log[1].a IN
        /\ \A u \in At(log, "update") :
               /\ log[u].a # NULL
               /\ log[u].b # NULL
               /\ {log[u].a, log[u].b} = Held(i)
        /\ \A r \in At(log, "render") :
               log[r].b = RenderSite =>
                   /\ log[r].a # NULL
                   /\ log[r].a \in Held(i)

====
